---- MODULE Spec2Model ----
(***************************************************************************)
(* Model of the statistics-archive decoder (gfs.StatArchiveReader) and of  *)
(* the conversion of one archive into sink appends (converter.Converter). *)
(*                                                                         *)
(* The archive is a byte stream.  The unread part of the stream that is   *)
(* known so far is buf; the file is revealed chunk by chunk (Feed) until  *)
(* its end is declared (EndOfFile).  Every reader operator works on the   *)
(* bytes themselves: s is a byte sequence and p the index of the next     *)
(* unread byte.  Strings are byte sequences, integers are decoded         *)
(* big-endian from their bytes.                                            *)
(***************************************************************************)
EXTENDS Integers, Sequences, FiniteSets, TLC

VARIABLES
    buf,                \* unread bytes of the file revealed so far
    eof,                \* TRUE when no byte follows buf in the file
    fed,                \* number of chunks revealed after the header
    pc,                 \* position of ConvertFile / ReadArchive
    curInst,            \* instanceId argument of the running readInstanceSampleData
    archiveVersion,     \* StatArchiveReader.archiveVersion
    startTimeStamp,     \* StatArchiveReader.startTimeStamp
    currentTimeStamp,   \* StatArchiveReader.currentTimeStamp (the running clock)
    previousTimeStamp,  \* StatArchiveReader.previousTimeStamp
    resourceTypes,      \* StatArchiveReader.resourceTypes
    instances,          \* StatArchiveReader.instances
    archiveErr,         \* what ReadArchive returned: "none" (running), "nil", "error"
    sink,               \* the WriteMetric calls accepted by the sink, in call order
    visited,            \* instances the conversion loop has ranged over
    commits,            \* number of Writer.Commit calls
    convertErr,         \* what ConvertFile returned: "none" (running), "nil", "error"
    decoded,            \* history: every sample stored by the reader, in stream order
    faults,             \* history: protocol violations met, in stream order
    lastStep,           \* history: what the last reader step consumed and did
    live,               \* history: ids created and not deleted since, by the records read
    removed,            \* history: ids some delete record read so far named
    codec,              \* a stat value read on its own: its bytes, descriptor kind, result
    writeFault,         \* history: the first WriteMetric that returned an error
    cancel,             \* history: the caller's request to cancel the decode
    pool,               \* Processor.ProcessDirectory: its workers and the shared Writer
    watch,              \* Watcher: pending events, processedFiles, running conversions
    names,              \* formatMetricName: the call's arguments and its result
    file,               \* the bytes of the file a scenario reads, <<>> otherwise
    ref                 \* history: what the revealed events mean in the archive format

vars == <<buf, eof, fed, pc, curInst, archiveVersion, startTimeStamp,
          currentTimeStamp, previousTimeStamp, resourceTypes, instances,
          archiveErr, sink, visited, commits, convertErr, decoded, faults,
          lastStep, live, removed, codec, writeFault, cancel, pool,
          watch, names, file, ref>>

-----------------------------------------------------------------------------
(* Bounds of the model *)

\* number of chunks (records or fragments) revealed after the header
MaxChunks == 4

\* the most samples one instance holds when MaxChunks sample rows were read
MaxWrites == 2 * MaxChunks

\* files discovered by one ProcessDirectory call, and the greatest Concurrency
MaxFiles == 3
MaxConcurrency == 2

\* file system events one run of the watcher receives
MaxEvents == 3

-----------------------------------------------------------------------------
(* Token constants of the archive format *)

HEADER_TOKEN == 77
SAMPLE_TOKEN == 0
RESOURCE_TYPE_TOKEN == 1
RESOURCE_INSTANCE_CREATE_TOKEN == 2
RESOURCE_INSTANCE_DELETE_TOKEN == 3
RESOURCE_INSTANCE_INITIALIZE_TOKEN == 4
SHORT_RESOURCE_INST_ID_TOKEN == 253
INT_RESOURCE_INST_ID_TOKEN == 254
ILLEGAL_RESOURCE_INST_ID_TOKEN == 255
INT_TIMESTAMP_TOKEN == 65535
ARCHIVE_VERSION == 4
ILLEGAL_STAT_OFFSET == 255
MAX_1BYTE_COMPACT_VALUE == 127
MIN_1BYTE_COMPACT_VALUE == -128
COMPACT_VALUE_2_TOKEN == -1
BOOLEAN_TYPE_CODE == 1
CHAR_TYPE_CODE == 2
BYTE_TYPE_CODE == 3
SHORT_TYPE_CODE == 4
INT_TYPE_CODE == 5
LONG_TYPE_CODE == 6
FLOAT_TYPE_CODE == 7
DOUBLE_TYPE_CODE == 8
WCHAR_TYPE_CODE == 12
MaxStatCount == 10000
MaxTypeNameLen == 100
MaxInstanceNameLen == 200

-----------------------------------------------------------------------------
(* Byte-level reads: bufio.Reader.ReadByte, io.ReadFull, binary.Read *)

EmptyFn == [x \in {} |-> 0]

\* v bound to the name used by F: the result of a call kept in a local variable
With(v, F(_)) == F(v)

\* big-endian unsigned value of a byte sequence
RECURSIVE UnsignedBE(_)
UnsignedBE(bs) ==
    IF bs = <<>> THEN 0
    ELSE UnsignedBE(SubSeq(bs, 1, Len(bs) - 1)) * 256 + bs[Len(bs)]

\* big-endian two's-complement value of a non-empty byte sequence
RECURSIVE SignedBE(_)
SignedBE(bs) ==
    IF Len(bs) = 1 THEN (IF bs[1] >= 128 THEN bs[1] - 256 ELSE bs[1])
    ELSE SignedBE(SubSeq(bs, 1, Len(bs) - 1)) * 256 + bs[Len(bs)]

\* int8(b)
Int8(b) == IF b >= 128 THEN b - 256 ELSE b

\* r.reader.ReadByte(): fails at the end of the stream
ReadByte(s, p) ==
    IF p <= Len(s) THEN [ok |-> TRUE, v |-> s[p], p |-> p + 1, hit |-> FALSE]
    ELSE [ok |-> FALSE, v |-> 0, p |-> p, hit |-> TRUE]

\* io.ReadFull(r.reader, n bytes): a short read consumes what is left and fails
ReadFull(s, p, n) ==
    IF p + n - 1 <= Len(s)
    THEN [ok |-> TRUE, v |-> SubSeq(s, p, p + n - 1), p |-> p + n, hit |-> FALSE]
    ELSE [ok |-> FALSE, v |-> <<>>, p |-> Len(s) + 1, hit |-> TRUE]

\* binary.Read(r.reader, BigEndian, &unsigned of n bytes)
ReadUnsigned(s, p, n) ==
    With(ReadFull(s, p, n), LAMBDA b :
        [ok |-> b.ok, v |-> IF b.ok THEN UnsignedBE(b.v) ELSE 0, p |-> b.p, hit |-> b.hit])

\* binary.Read(r.reader, BigEndian, &signed of n bytes)
ReadSigned(s, p, n) ==
    With(ReadFull(s, p, n), LAMBDA b :
        [ok |-> b.ok, v |-> IF b.ok THEN SignedBE(b.v) ELSE 0, p |-> b.p, hit |-> b.hit])

\* readUTF: u16 length, then that many bytes, returned raw as the string
readUTF(s, p) ==
    With(ReadUnsigned(s, p, 2), LAMBDA len :
        IF ~len.ok THEN [ok |-> FALSE, v |-> <<>>, p |-> len.p, hit |-> TRUE]
        ELSE IF len.v = 0 THEN [ok |-> TRUE, v |-> <<>>, p |-> len.p, hit |-> FALSE]
        ELSE ReadFull(s, len.p, len.v))

\* a run of fields read one after the other, each failure returning an error:
\* "u8" ReadByte, "i16" "i32" "i64" binary.Read of a signed integer, "b64" binary.Read
\* of a 64-bit integer that is only stored (kept as its bytes), "utf" readUTF
ReadField(s, p, kind) ==
    CASE kind = "u8"  -> ReadByte(s, p)
      [] kind = "i16" -> ReadSigned(s, p, 2)
      [] kind = "i32" -> ReadSigned(s, p, 4)
      [] kind = "i64" -> ReadSigned(s, p, 8)
      [] kind = "b64" -> ReadFull(s, p, 8)
      [] kind = "utf" -> readUTF(s, p)

RECURSIVE ReadFields(_, _, _, _)
ReadFields(s, p, layout, got) ==
    IF Len(got) = Len(layout) THEN [ok |-> TRUE, v |-> got, p |-> p, hit |-> FALSE]
    ELSE With(ReadField(s, p, layout[Len(got) + 1]), LAMBDA f :
             IF ~f.ok THEN [ok |-> FALSE, v |-> got, p |-> f.p, hit |-> TRUE]
             ELSE ReadFields(s, f.p, layout, Append(got, f.v)))

-----------------------------------------------------------------------------
(* StatArchiveReader: header *)

\* the fields readHeader reads after the token and the version: startTimeStamp,
\* systemId, systemStartTimeStamp, timeZoneOffset, timeZoneName, systemDirectory,
\* productVersion, os, machine
HeaderLayout == <<"i64", "b64", "b64", "i32", "utf", "utf", "utf", "utf", "utf">>

\* readHeader without the test of the version
readHeaderAnyVersion(s) ==
    With(ReadByte(s, 1), LAMBDA tok :
        IF ~tok.ok
        THEN [ok |-> FALSE, p |-> tok.p, hit |-> TRUE, version |-> 0, start |-> 0]
        ELSE IF tok.v # HEADER_TOKEN
        THEN [ok |-> FALSE, p |-> tok.p, hit |-> FALSE, version |-> 0, start |-> 0]
        ELSE With(ReadByte(s, tok.p), LAMBDA ver :
            IF ~ver.ok
            THEN [ok |-> FALSE, p |-> ver.p, hit |-> TRUE, version |-> 0, start |-> 0]
            ELSE With(ReadFields(s, ver.p, HeaderLayout, <<>>), LAMBDA f :
                [ok |-> f.ok, p |-> f.p, hit |-> f.hit, version |-> ver.v,
                 start |-> IF Len(f.v) >= 1 THEN f.v[1] ELSE 0])))

\* readHeader: the fields it assigned and whether it returned an error
readHeader(s) ==
    With(ReadByte(s, 1), LAMBDA tok :
        IF ~tok.ok
        THEN [ok |-> FALSE, p |-> tok.p, hit |-> TRUE, version |-> 0, start |-> 0]
        ELSE IF tok.v # HEADER_TOKEN
        THEN [ok |-> FALSE, p |-> tok.p, hit |-> FALSE, version |-> 0, start |-> 0]
        ELSE With(ReadByte(s, tok.p), LAMBDA ver :
            IF ~ver.ok
            THEN [ok |-> FALSE, p |-> ver.p, hit |-> TRUE, version |-> 0, start |-> 0]
            ELSE IF ver.v < 2 \/ ver.v > ARCHIVE_VERSION
            THEN [ok |-> FALSE, p |-> ver.p, hit |-> FALSE, version |-> ver.v, start |-> 0]
            ELSE With(ReadFields(s, ver.p, HeaderLayout, <<>>), LAMBDA f :
                [ok |-> f.ok, p |-> f.p, hit |-> f.hit, version |-> ver.v,
                 start |-> IF Len(f.v) >= 1 THEN f.v[1] ELSE 0])))

-----------------------------------------------------------------------------
(* StatArchiveReader: clock *)

\* what time.Now can return, in milliseconds: a time later than every archive time
\* used here (one value stands for the wall clock of a whole run)
WallClock == {1700000000}

\* getCurrentTime: the time.Time values it can return for clock value ts, in ms
getCurrentTime(ts) == IF ts <= 0 THEN WallClock ELSE {ts}

\* updateTimeStamp(token): the new clock and the read position
updateTimeStamp(s, p, token, clock) ==
    IF token < 252 THEN [clock |-> clock + token, p |-> p, hit |-> FALSE]
    ELSE With(ReadUnsigned(s, p, IF token = 252 THEN 2 ELSE 4), LAMBDA d :
             [clock |-> IF d.ok THEN clock + d.v ELSE clock, p |-> d.p, hit |-> d.hit])

\* readSampleTimestamp: u16 delta, or 65535 and an i32 delta (no caller in readRecords)
readSampleTimestamp(s, p, clock) ==
    With(ReadUnsigned(s, p, 2), LAMBDA ds :
        IF ~ds.ok THEN [ok |-> FALSE, clock |-> clock, p |-> ds.p, hit |-> TRUE]
        ELSE IF ds.v = INT_TIMESTAMP_TOKEN
        THEN With(ReadSigned(s, ds.p, 4), LAMBDA di :
                 IF ~di.ok THEN [ok |-> FALSE, clock |-> clock, p |-> di.p, hit |-> TRUE]
                 ELSE [ok |-> TRUE, clock |-> clock + di.v, p |-> di.p, hit |-> FALSE])
        ELSE [ok |-> TRUE,
              clock |-> clock + (IF ds.v >= 32768 THEN ds.v - 65536 ELSE ds.v),
              p |-> ds.p, hit |-> FALSE])

-----------------------------------------------------------------------------
(* StatArchiveReader: resource types *)

\* convertTypeCode: the StatType of a descriptor's type code
convertTypeCode(typeCode) ==
    IF typeCode = LONG_TYPE_CODE THEN "StatTypeLong"
    ELSE IF typeCode = FLOAT_TYPE_CODE THEN "StatTypeFloat"
    ELSE IF typeCode = DOUBLE_TYPE_CODE THEN "StatTypeDouble"
    ELSE "StatTypeInt"

\* the fields readStatDescriptor reads: name, typeCode, isCounter, largerBetter,
\* unit, description
DescriptorLayout == <<"utf", "u8", "u8", "u8", "utf", "utf">>

\* readStatDescriptor: one descriptor; nTypes is len(r.resourceTypes)
readStatDescriptor(s, p, nTypes) ==
    With(ReadFields(s, p, DescriptorLayout, <<>>), LAMBDA f :
        IF ~f.ok THEN [ok |-> FALSE, v |-> <<>>, p |-> f.p]
        ELSE [ok |-> TRUE,
              v |-> [ID |-> nTypes, Name |-> f.v[1], Description |-> f.v[6],
                     Unit |-> f.v[5], IsCounter |-> (f.v[3] # 0),
                     Type |-> convertTypeCode(f.v[2])],
              p |-> f.p])

\* the descriptor loop of readResourceType: count descriptors in stream order, up to
\* the first one that fails (computed by halves to keep the evaluation shallow)
RECURSIVE readStats(_, _, _, _)
readStats(s, p, count, nTypes) ==
    IF count = 0 THEN [stats |-> <<>>, p |-> p, hit |-> FALSE]
    ELSE IF count = 1
    THEN With(readStatDescriptor(s, p, nTypes), LAMBDA d :
             IF d.ok THEN [stats |-> <<d.v>>, p |-> d.p, hit |-> FALSE]
             ELSE [stats |-> <<>>, p |-> d.p, hit |-> TRUE])
    ELSE With(readStats(s, p, count \div 2, nTypes), LAMBDA a :
             IF a.hit THEN a
             ELSE With(readStats(s, a.p, count - (count \div 2), nTypes), LAMBDA b :
                      [stats |-> a.stats \o b.stats, p |-> b.p, hit |-> b.hit]))

\* the fields readResourceType reads before the descriptors: typeId, name,
\* description, statCount
TypeLayout == <<"i32", "utf", "utf", "i16">>

\* readResourceType: the schema table after the record, and whether it returned an error
readResourceType(s, p, types) ==
    With(ReadFields(s, p, TypeLayout, <<>>), LAMBDA f :
        IF ~f.ok
        THEN [ok |-> FALSE, types |-> types, p |-> f.p, hit |-> TRUE, cut |-> FALSE]
        ELSE IF f.v[4] < 0 \/ f.v[4] > MaxStatCount
        THEN [ok |-> FALSE, types |-> types, p |-> f.p, hit |-> FALSE, cut |-> FALSE]
        ELSE With(readStats(s, f.p, f.v[4], Cardinality(DOMAIN types)), LAMBDA body :
            [ok |-> TRUE,
             types |-> [t \in DOMAIN types \cup {f.v[1]} |->
                           IF t = f.v[1]
                           THEN [ID |-> f.v[1], Name |-> f.v[2], Description |-> f.v[3],
                                 Stats |-> body.stats]
                           ELSE types[t]],
             p |-> body.p, hit |-> body.hit, cut |-> body.hit]))

-----------------------------------------------------------------------------
(* StatArchiveReader: resource instances *)

\* readResourceInstanceId: a compact resource id; -1 stands for the end marker
readResourceInstanceId(s, p) ==
    With(ReadByte(s, p), LAMBDA b :
        IF ~b.ok THEN [ok |-> FALSE, v |-> 0, p |-> b.p, hit |-> TRUE]
        ELSE IF b.v = ILLEGAL_RESOURCE_INST_ID_TOKEN
        THEN [ok |-> TRUE, v |-> -1, p |-> b.p, hit |-> FALSE]
        ELSE IF b.v < SHORT_RESOURCE_INST_ID_TOKEN
        THEN [ok |-> TRUE, v |-> b.v, p |-> b.p, hit |-> FALSE]
        ELSE IF b.v = SHORT_RESOURCE_INST_ID_TOKEN THEN ReadUnsigned(s, b.p, 2)
        ELSE ReadSigned(s, b.p, 4))

\* the fields readResourceInstanceCreate reads: instanceId, name (textId), numericId,
\* typeId
CreateLayout == <<"i32", "utf", "b64", "i32">>

\* readResourceInstanceCreate: the instance table after the record; now is the
\* value getCurrentTime returned
readResourceInstanceCreate(s, p, insts, now) ==
    With(ReadFields(s, p, CreateLayout, <<>>), LAMBDA f :
        IF ~f.ok THEN [ok |-> FALSE, insts |-> insts, p |-> f.p, hit |-> TRUE, id |-> 0]
        ELSE [ok |-> TRUE,
              insts |-> [i \in DOMAIN insts \cup {f.v[1]} |->
                            IF i = f.v[1]
                            THEN [ID |-> f.v[1], TypeID |-> f.v[4], Name |-> f.v[2],
                                  CreationTime |-> now, Stats |-> EmptyFn]
                            ELSE insts[i]],
              p |-> f.p, hit |-> FALSE, id |-> f.v[1]])

\* a readResourceInstanceDelete that reads the id and leaves the instance in the table
readResourceInstanceDeleteKeep(s, p, insts) ==
    With(readResourceInstanceId(s, p), LAMBDA id :
        IF ~id.ok THEN [ok |-> FALSE, insts |-> insts, p |-> id.p, hit |-> TRUE, id |-> 0]
        ELSE [ok |-> TRUE, insts |-> insts, p |-> id.p, hit |-> FALSE, id |-> id.v])

\* readResourceInstanceDelete: the instance table after the record
readResourceInstanceDelete(s, p, insts) ==
    With(readResourceInstanceId(s, p), LAMBDA id :
        IF ~id.ok THEN [ok |-> FALSE, insts |-> insts, p |-> id.p, hit |-> TRUE, id |-> 0]
        ELSE [ok |-> TRUE,
              insts |-> [i \in DOMAIN insts \ {id.v} |-> insts[i]],
              p |-> id.p, hit |-> FALSE, id |-> id.v])

-----------------------------------------------------------------------------
(* StatArchiveReader: stat values *)

\* int32(value) of the little-endian reconstruction of n >= 3 bytes, sign-extended
\* from the high bit of the last byte
LittleEndianInt32(bytes) ==
    SignedBE(<<IF Len(bytes) >= 4 THEN bytes[4]
               ELSE IF bytes[Len(bytes)] >= 128 THEN 255 ELSE 0,
               bytes[3], bytes[2], bytes[1]>>)

\* the multi-byte branch of readCompactValue: reader.Read of n bytes at p, of which
\* got are there
readCompactBytes(s, p, n, got) ==
    IF n > 8 THEN [ok |-> FALSE, v |-> 0, p |-> p, hit |-> FALSE]
    ELSE IF got = 0 THEN [ok |-> FALSE, v |-> 0, p |-> p, hit |-> TRUE]
    ELSE [ok |-> TRUE,
          v |-> LittleEndianInt32([i \in 1..n |-> IF i <= got THEN s[p + i - 1] ELSE 0]),
          p |-> p + got, hit |-> got < n]

\* readCompactValue: a compact-encoded value, as int32
readCompactValue(s, p) ==
    With(ReadByte(s, p), LAMBDA first :
        IF ~first.ok THEN [ok |-> FALSE, v |-> 0, p |-> first.p, hit |-> TRUE]
        ELSE With(Int8(first.v), LAMBDA signedFirstByte :
            IF /\ signedFirstByte >= MIN_1BYTE_COMPACT_VALUE
               /\ signedFirstByte <= MAX_1BYTE_COMPACT_VALUE
            THEN [ok |-> TRUE, v |-> signedFirstByte, p |-> first.p, hit |-> FALSE]
            ELSE IF signedFirstByte = COMPACT_VALUE_2_TOKEN THEN ReadSigned(s, first.p, 2)
            ELSE IF signedFirstByte < COMPACT_VALUE_2_TOKEN
            THEN With(COMPACT_VALUE_2_TOKEN - signedFirstByte + 2, LAMBDA numBytes :
                     readCompactBytes(s, first.p, numBytes,
                         IF first.p + numBytes - 1 <= Len(s) THEN numBytes
                         ELSE Len(s) - first.p + 1))
            ELSE [ok |-> FALSE, v |-> 0, p |-> first.p, hit |-> FALSE]))

\* readCompactInt
readCompactInt(s, p) == readCompactValue(s, p)

\* readCompactLong: int64(readCompactValue())
readCompactLong(s, p) == readCompactValue(s, p)

\* the value of a read with the Go type it is returned as
Tagged(r, t) == [ok |-> r.ok, v |-> [type |-> t, val |-> r.v], p |-> r.p, hit |-> r.hit]

\* readStatValue: the value of a stat of the given StatType, tagged with its Go type
readStatValue(s, p, statType) ==
    IF statType = "StatTypeLong" THEN Tagged(readCompactLong(s, p), "int64")
    ELSE IF statType = "StatTypeDouble" THEN Tagged(ReadFull(s, p, 8), "float64")
    ELSE IF statType = "StatTypeFloat" THEN Tagged(ReadFull(s, p, 4), "float64")
    ELSE Tagged(readCompactInt(s, p), "int32")

-----------------------------------------------------------------------------
(* StatArchiveReader: sample rows *)

\* the lookups that open readInstanceSampleData
lookupInstance(insts, types, instanceId) ==
    IF instanceId \notin DOMAIN insts THEN "unknown instance"
    ELSE IF insts[instanceId].TypeID \notin DOMAIN types THEN "unknown resource type"
    ELSE "found"

\* an offset test that takes the offset byte as signed: offsets 128..254 are refused
offsetInRangeSigned(offset, n) == offset < n /\ offset < 128

\* the offset test of readInstanceSampleData: n is len(resourceType.Stats)
offsetInRange(offset, n) == offset < n

\* instance.Stats[statId] = append(instance.Stats[statId], StatValue{...})
appendStatValue(insts, instanceId, statId, statValue) ==
    [insts EXCEPT ![instanceId].Stats =
        [o \in DOMAIN insts[instanceId].Stats \cup {statId} |->
            IF o = statId
            THEN Append(IF statId \in DOMAIN insts[instanceId].Stats
                        THEN insts[instanceId].Stats[statId] ELSE <<>>, statValue)
            ELSE insts[instanceId].Stats[o]]]

\* one turn of the offset loop of readInstanceSampleData for instanceId; ts is the
\* value getCurrentTime returned and seq the position of the value among all the
\* values stored (a history tag).  what is "stored" (a value was appended), "end"
\* (ILLEGAL_STAT_OFFSET), or "error" (the function returned an error)
readInstanceSampleData(s, p, insts, types, instanceId, ts, seq) ==
    With(ReadByte(s, p), LAMBDA offset :
        IF ~offset.ok
        THEN [what |-> "error", p |-> offset.p, hit |-> TRUE, insts |-> insts,
              offset |-> 0, value |-> 0]
        ELSE IF offset.v = ILLEGAL_STAT_OFFSET
        THEN [what |-> "end", p |-> offset.p, hit |-> FALSE, insts |-> insts,
              offset |-> offset.v, value |-> 0]
        ELSE IF ~offsetInRange(offset.v, Len(types[insts[instanceId].TypeID].Stats))
        THEN [what |-> "error", p |-> offset.p, hit |-> FALSE, insts |-> insts,
              offset |-> offset.v, value |-> 0]
        ELSE With(readStatValue(s, offset.p,
                      types[insts[instanceId].TypeID].Stats[offset.v + 1].Type),
                  LAMBDA value :
            IF ~value.ok
            THEN [what |-> "error", p |-> value.p, hit |-> value.hit, insts |-> insts,
                  offset |-> offset.v, value |-> 0]
            ELSE [what |-> "stored", p |-> value.p, hit |-> value.hit,
                  insts |-> appendStatValue(insts, instanceId, offset.v,
                               [Timestamp |-> ts, Value |-> value.v, seq |-> seq]),
                  offset |-> offset.v, value |-> value.v]))

-----------------------------------------------------------------------------
(* The archive format as a writer produces it: the events of a stream and   *)
(* their bytes.  The repository holds no writer; this is the record layout  *)
(* of the format description.                                                *)

U16(v) == <<(v \div 256) % 256, v % 256>>
I32(v) == <<(v \div 16777216) % 256, (v \div 65536) % 256, (v \div 256) % 256, v % 256>>
I64(v) == (IF v < 0 THEN <<255, 255, 255, 255>> ELSE <<0, 0, 0, 0>>) \o I32(v)
UTF(str) == U16(Len(str)) \o str

\* the concatenation of a sequence of sequences (by halves)
RECURSIVE Concat(_)
Concat(seqs) ==
    IF Len(seqs) = 0 THEN <<>>
    ELSE IF Len(seqs) = 1 THEN seqs[1]
    ELSE Concat(SubSeq(seqs, 1, Len(seqs) \div 2))
            \o Concat(SubSeq(seqs, Len(seqs) \div 2 + 1, Len(seqs)))

EncHeader(magic, version, start) ==
    <<magic, version>> \o I64(start) \o I64(1) \o I64(start) \o I32(0)
        \o UTF(<<85, 84, 67>>) \o UTF(<<>>) \o UTF(<<>>) \o UTF(<<>>) \o UTF(<<>>)

EncDescriptor(d) ==
    UTF(d.name) \o <<d.code, 0, 0>> \o UTF(<<>>) \o UTF(<<>>)

EncType(e) ==
    <<RESOURCE_TYPE_TOKEN>> \o I32(e.id) \o UTF(e.name) \o UTF(<<>>) \o U16(Len(e.stats))
        \o Concat([i \in 1..Len(e.stats) |-> EncDescriptor(e.stats[i])])

EncCreate(e) ==
    <<RESOURCE_INSTANCE_CREATE_TOKEN>> \o I32(e.id) \o UTF(e.name) \o I64(0) \o I32(e.type)

EncResourceId(id) ==
    IF id < SHORT_RESOURCE_INST_ID_TOKEN THEN <<id>>
    ELSE IF id < 65536 THEN <<SHORT_RESOURCE_INST_ID_TOKEN>> \o U16(id)
    ELSE <<INT_RESOURCE_INST_ID_TOKEN>> \o I32(id)

EncDelete(e) == <<RESOURCE_INSTANCE_DELETE_TOKEN>> \o EncResourceId(e.id)

\* compact value: one byte for -120..127, else token -128 and 2 bytes, else
\* token -126 and 4 bytes
EncCompact(v) ==
    IF v >= -120 /\ v <= 127 THEN <<v % 256>>
    ELSE IF v >= -32768 /\ v <= 32767 THEN <<128>> \o U16(v)
    ELSE <<130>> \o I32(v)

\* sample-row delta: a 16-bit delta, or 65535 and a 32-bit delta
EncDelta(d) ==
    IF d >= -32768 /\ d <= 32767 /\ d # -1 THEN U16(d)
    ELSE U16(INT_TIMESTAMP_TOKEN) \o I32(d)

EncBlock(b) ==
    EncResourceId(b.inst)
        \o Concat([i \in 1..Len(b.stats) |-> <<b.stats[i].off>> \o EncCompact(b.stats[i].val)])
        \o <<ILLEGAL_STAT_OFFSET>>

EncRow(e) ==
    <<SAMPLE_TOKEN>> \o EncDelta(e.delta)
        \o Concat([i \in 1..Len(e.blocks) |-> EncBlock(e.blocks[i])])
        \o <<ILLEGAL_RESOURCE_INST_ID_TOKEN>>

Encode(e) ==
    CASE e.k = "type"   -> EncType(e)
      [] e.k = "create" -> EncCreate(e)
      [] e.k = "delete" -> EncDelete(e)
      [] e.k = "row"    -> EncRow(e)
      [] e.k = "raw"    -> e.bytes

-----------------------------------------------------------------------------
(* The archives the model reveals *)

NameT == <<84>>
NameU == <<85>>
NameY == <<89>>
NameA == <<97>>
NameB == <<98>>
NameX == <<120>>

\* archive start times of the headers
StartTimes == {0, 1000}

Headers ==
    {[magic |-> HEADER_TOKEN, version |-> ARCHIVE_VERSION, start |-> st] : st \in StartTimes}
        \cup {[magic |-> HEADER_TOKEN, version |-> v, start |-> 1000] : v \in {1, 2, 3, 5}}
        \cup {[magic |-> 78, version |-> ARCHIVE_VERSION, start |-> 1000]}

\* a type with one int stat, and a type of the same id with 201 stats (offsets 0..200)
TypeT == [k |-> "type", id |-> 1, name |-> NameT,
          stats |-> <<[name |-> NameX, code |-> INT_TYPE_CODE]>>]
TypeU == [k |-> "type", id |-> 1, name |-> NameU,
          stats |-> [i \in 1..201 |->
                        IF i = 201 THEN [name |-> NameB, code |-> LONG_TYPE_CODE]
                        ELSE [name |-> NameA, code |-> INT_TYPE_CODE]]]

Create1 == [k |-> "create", id |-> 1, name |-> NameY, type |-> 1]
Create2 == [k |-> "create", id |-> 2, name |-> <<>>, type |-> 1]
Delete1 == [k |-> "delete", id |-> 1]

RowA == [k |-> "row", delta |-> 5,
         blocks |-> <<[inst |-> 1, stats |-> <<[off |-> 0, val |-> 42]>>]>>]
RowB == [k |-> "row", delta |-> 5,
         blocks |-> <<[inst |-> 1, stats |-> <<[off |-> 200, val |-> 7], [off |-> 0, val |-> 42]>>]>>]
RowC == [k |-> "row", delta |-> 100000,
         blocks |-> <<[inst |-> 2, stats |-> <<[off |-> 0, val |-> 9]>>],
                      [inst |-> 1, stats |-> <<[off |-> 0, val |-> 42]>>]>>]

\* bytes that are no record of the format: a top-level byte 5 followed by what
\* would be the body of a sample row
Raw5 == [k |-> "raw", bytes |-> <<5, 1, 0, 42, 255, 255>>]

\* what follows the header at once: nothing, or the type with 201 stats
Prologues == {<<>>, <<TypeU>>}

\* what the file may go on with
Chunks == {TypeT, Create1, Create2, Delete1, RowA, RowB, RowC, Raw5}

-----------------------------------------------------------------------------
(* What a stream of events means in the archive format (history variable ref) *)

RefBad == [ok |-> FALSE, types |-> EmptyFn, insts |-> EmptyFn, samples |-> <<>>, clock |-> 0]

RefInit(start) ==
    [ok |-> TRUE, types |-> EmptyFn, insts |-> EmptyFn, samples |-> <<>>, clock |-> start]

RefRowValid(r, e) ==
    \A i \in 1..Len(e.blocks) :
        /\ e.blocks[i].inst \in DOMAIN r.insts
        /\ \A j \in 1..Len(e.blocks[i].stats) :
               e.blocks[i].stats[j].off <
                   Len(r.types[r.insts[e.blocks[i].inst].type].stats)

RefRowSamples(e, clock) ==
    Concat([i \in 1..Len(e.blocks) |->
               [j \in 1..Len(e.blocks[i].stats) |->
                   [inst |-> e.blocks[i].inst, off |-> e.blocks[i].stats[j].off,
                    ts |-> clock, val |-> e.blocks[i].stats[j].val]]])

RefApply(r, e) ==
    IF ~r.ok THEN RefBad
    ELSE CASE e.k = "type" ->
                IF e.id \in DOMAIN r.types THEN RefBad
                ELSE [r EXCEPT !.types = [t \in DOMAIN r.types \cup {e.id} |->
                         IF t = e.id
                         THEN [name |-> e.name,
                               stats |-> [i \in 1..Len(e.stats) |->
                                   [name |-> e.stats[i].name,
                                    type |-> convertTypeCode(e.stats[i].code)]]]
                         ELSE r.types[t]]]
           [] e.k = "create" ->
                IF e.id \in DOMAIN r.insts \/ e.type \notin DOMAIN r.types THEN RefBad
                ELSE [r EXCEPT !.insts = [i \in DOMAIN r.insts \cup {e.id} |->
                         IF i = e.id THEN [name |-> e.name, type |-> e.type]
                         ELSE r.insts[i]]]
           [] e.k = "delete" ->
                IF e.id \notin DOMAIN r.insts THEN RefBad
                ELSE [r EXCEPT !.insts = [i \in DOMAIN r.insts \ {e.id} |-> r.insts[i]]]
           [] e.k = "row" ->
                IF ~RefRowValid(r, e) \/ r.clock + e.delta < 0 THEN RefBad
                ELSE [r EXCEPT !.clock = r.clock + e.delta,
                               !.samples = r.samples \o RefRowSamples(e, r.clock + e.delta)]
           [] e.k = "raw" -> RefBad

RECURSIVE RefApplyAll(_, _)
RefApplyAll(r, es) == IF es = <<>> THEN r ELSE RefApplyAll(RefApply(r, Head(es)), Tail(es))

-----------------------------------------------------------------------------
(* Converter *)

\* config.Default().MetricPrefix: "gemfire"
DefaultPrefix == <<103, 101, 109, 102, 105, 114, 101>>

isValidResourceType(resType) ==
    /\ Len(resType.Name) # 0
    /\ Len(resType.Name) <= MaxTypeNameLen
    /\ \A i \in 1..Len(resType.Name) : resType.Name[i] >= 32 /\ resType.Name[i] <= 126

isValidInstance(instance) ==
    /\ Len(instance.Name) # 0
    /\ Len(instance.Name) <= MaxInstanceNameLen
    /\ 10 * Cardinality({i \in 1..Len(instance.Name) :
                            instance.Name[i] >= 32 /\ instance.Name[i] <= 126})
          >= 8 * Len(instance.Name)

\* strings.ToLower on an ASCII byte
ToLowerByte(b) == IF b >= 65 /\ b <= 90 THEN b + 32 ELSE b

formatMetricName(prefix, resourceType, statName) ==
    LET pre  == IF prefix = <<>> THEN DefaultPrefix ELSE prefix
        rt   == [i \in 1..Len(resourceType) |->
                    ToLowerByte(IF resourceType[i] = 32 THEN 95 ELSE resourceType[i])]
        sn   == [i \in 1..Len(statName) |->
                    LET c == ToLowerByte(IF statName[i] = 32 THEN 95 ELSE statName[i])
                    IN  IF c = 45 THEN 95 ELSE c]
    IN  pre \o <<95>> \o rt \o <<95>> \o sn

\* convertToFloat64: integers convert exactly; a float keeps its bits
convertToFloat64(value) == value.val

\* the WriteMetric calls convertWithReader makes for one instance of the range loop
writesOf(instance, types, prefix) ==
    IF instance.TypeID \notin DOMAIN types THEN <<>>
    ELSE LET resType == types[instance.TypeID]
             ofStat(i) ==
                 IF (i - 1) \notin DOMAIN instance.Stats THEN <<>>
                 ELSE LET values == instance.Stats[i - 1]
                      IN  [n \in 1..Len(values) |->
                              [name   |-> formatMetricName(prefix, resType.Name,
                                                           resType.Stats[i].Name),
                               labels |-> [job |-> "gfs-to-prometheus",
                                           statType |-> resType.Name,
                                           statName |-> instance.Name],
                               value  |-> convertToFloat64(values[n].Value),
                               ts     |-> values[n].Timestamp,
                               seq    |-> values[n].seq]]
         IN  IF ~isValidResourceType(resType) \/ ~isValidInstance(instance) THEN <<>>
             ELSE Concat([i \in 1..Len(resType.Stats) |-> ofStat(i)])

-----------------------------------------------------------------------------
(* State machine *)

\* no stat value is being read on its own
CodecIdle == [state |-> "idle", kind |-> 0, in |-> <<>>, value |-> <<>>,
              out |-> [ok |-> FALSE, v |-> [type |-> "", val |-> 0], p |-> 0, hit |-> FALSE]]

\* the caller has not asked to cancel; n, types and insts are the number of samples
\* stored and the ids of the tables at the request
NoCancel == [seen |-> FALSE, n |-> 0, types |-> {}, insts |-> {}]

\* no directory is being processed
PoolIdle == [state |-> "idle"]

\* no directory is being watched
WatchIdle == [state |-> "idle"]

\* formatMetricName has not been called
NamesIdle == [state |-> "idle"]

\* no WriteMetric has returned an error; n is the length of the sink at the first one
NoWriteFault == [seen |-> FALSE, n |-> 0]

NoFault == [seen |-> FALSE, what |-> "", types |-> EmptyFn, insts |-> EmptyFn, n |-> 0]
NoRow   == [ok |-> FALSE, clock |-> 0, p |-> 0, hit |-> FALSE]
NoStep  == [op |-> "none", token |-> 0, clock |-> 0, used |-> 0, row |-> NoRow,
            n |-> 0, short |-> FALSE, count |-> 0,
            id |-> -1, tid |-> -1, types |-> EmptyFn, insts |-> EmptyFn]

Rest(s, p) == SubSeq(s, p, Len(s))

\* the first protocol violation and the tables at that moment
Fault(what, types, insts, n) ==
    IF faults.seen THEN faults
    ELSE [seen |-> TRUE, what |-> what, types |-> types, insts |-> insts, n |-> n]

\* what a reader step did: the byte or id it decided on, the clock, the tables and
\* the number of samples before it, the bytes it consumed
StepOf(op, token, used) ==
    [NoStep EXCEPT !.op = op, !.token = token, !.used = used,
                   !.clock = currentTimeStamp, !.count = Len(decoded),
                   !.types = resourceTypes, !.insts = instances]

\* a step of readRecords; row is what readSampleTimestamp makes of the bytes after
\* the token
RecordStep(token, used) ==
    [StepOf("record", token, used) EXCEPT
        !.row = readSampleTimestamp(buf, 2, currentTimeStamp)]

Init ==
    /\ \E h \in Headers, pro \in Prologues :
          /\ buf = EncHeader(h.magic, h.version, h.start)
                      \o Concat([i \in 1..Len(pro) |-> Encode(pro[i])])
          /\ ref = IF h.magic = HEADER_TOKEN /\ h.version >= 2 /\ h.version <= 4
                   THEN RefApplyAll(RefInit(h.start), pro) ELSE RefBad
    /\ eof = FALSE
    /\ fed = 0
    /\ pc = "header"
    /\ curInst = 0
    /\ archiveVersion = 0
    /\ startTimeStamp = 0
    /\ currentTimeStamp = 0
    /\ previousTimeStamp = 0
    /\ resourceTypes = EmptyFn
    /\ instances = EmptyFn
    /\ archiveErr = "none"
    /\ sink = <<>>
    /\ visited = {}
    /\ commits = 0
    /\ convertErr = "none"
    /\ decoded = <<>>
    /\ faults = NoFault
    /\ lastStep = NoStep
    /\ live = {}
    /\ removed = {}
    /\ codec = CodecIdle
    /\ writeFault = NoWriteFault
    /\ cancel = NoCancel
    /\ pool = PoolIdle
    /\ watch = WatchIdle
    /\ names = NamesIdle
    /\ file = <<>>

\* whether the record announced by token runs into the end of buf
RecordNeedsMore(token) ==
    IF token = RESOURCE_TYPE_TOKEN THEN readResourceType(buf, 2, resourceTypes).hit
    ELSE IF token = RESOURCE_INSTANCE_CREATE_TOKEN
    THEN readResourceInstanceCreate(buf, 2, instances, 0).hit
    ELSE IF token = RESOURCE_INSTANCE_DELETE_TOKEN
    THEN readResourceInstanceDelete(buf, 2, instances).hit
    ELSE IF token = RESOURCE_INSTANCE_INITIALIZE_TOKEN THEN FALSE
    ELSE updateTimeStamp(buf, 2, token, currentTimeStamp).hit

\* whether the step the reader is about to take runs into the end of buf
NeedMore ==
    CASE pc = "header" -> readHeader(buf).hit
      [] pc = "records" -> IF buf = <<>> THEN TRUE ELSE RecordNeedsMore(buf[1])
      [] pc = "sampleData" -> readResourceInstanceId(buf, 1).hit
      [] pc = "instanceData" ->
            readInstanceSampleData(buf, 1, instances, resourceTypes, curInst, 0, 0).hit
      [] OTHER -> FALSE

\* the next chunk of the file becomes known
Feed(e) ==
    /\ ~eof /\ fed < MaxChunks /\ NeedMore
    /\ buf' = buf \o Encode(e)
    /\ fed' = fed + 1
    /\ ref' = RefApply(ref, e)
    /\ UNCHANGED <<eof, pc, curInst, archiveVersion, startTimeStamp, currentTimeStamp,
                   previousTimeStamp, resourceTypes, instances, archiveErr, sink,
                   visited, commits, convertErr, decoded, faults, lastStep, live, removed>>
    /\ UNCHANGED <<codec, writeFault, cancel, pool, watch, names, file>>

\* the file ends here
EndOfFile ==
    /\ ~eof /\ NeedMore
    /\ eof' = TRUE
    /\ UNCHANGED <<buf, fed, pc, curInst, archiveVersion, startTimeStamp, currentTimeStamp,
                   previousTimeStamp, resourceTypes, instances, archiveErr, sink,
                   visited, commits, convertErr, decoded, faults, lastStep, ref, live,
                   removed>>
    /\ UNCHANGED <<codec, writeFault, cancel, pool, watch, names, file>>

\* ReadArchive up to the call of readRecords
ReadArchive ==
    /\ pc = "header"
    /\ \E h \in {readHeader(buf)} :
           /\ ~h.hit \/ eof
           /\ buf' = Rest(buf, h.p)
           /\ archiveVersion' = h.version
           /\ startTimeStamp' = h.start
           /\ IF h.ok
              THEN /\ currentTimeStamp' = h.start
                   /\ previousTimeStamp' = h.start
                   /\ pc' = "records"
                   /\ archiveErr' = "none"
              ELSE /\ UNCHANGED <<currentTimeStamp, previousTimeStamp>>
                   /\ pc' = "convert"
                   /\ archiveErr' = "error"
    /\ lastStep' = [NoStep EXCEPT !.op = "header",
                                  !.token = IF Len(buf) >= 1 THEN buf[1] ELSE 0,
                                  !.n = IF Len(buf) >= 2 THEN buf[2] ELSE 0]
    /\ UNCHANGED <<eof, fed, curInst, resourceTypes, instances, sink, visited, commits,
                   convertErr, decoded, faults, ref, live, removed>>
    /\ UNCHANGED <<codec, writeFault, cancel, pool, watch, names, file>>

\* readRecords at the end of the stream: the loop ends and ReadArchive returns nil
readRecordsEOF ==
    /\ buf = <<>>
    /\ pc' = "convert"
    /\ archiveErr' = "nil"
    /\ lastStep' = [NoStep EXCEPT !.op = "eof"]
    /\ UNCHANGED <<buf, currentTimeStamp, previousTimeStamp, resourceTypes, instances,
                   faults, live, removed>>

\* case RESOURCE_TYPE_TOKEN of readRecords
readRecordsType ==
    /\ buf # <<>> /\ buf[1] = RESOURCE_TYPE_TOKEN
    /\ \E r \in {readResourceType(buf, 2, resourceTypes)} :
           /\ resourceTypes' = r.types
           /\ buf' = Rest(buf, r.p)
           /\ faults' = IF r.ok /\ ~r.cut THEN faults
                        ELSE Fault("type", r.types, instances, Len(decoded))
           /\ lastStep' = [RecordStep(buf[1], r.p - 1) EXCEPT
                               !.short = r.hit,
                               !.id = IF r.ok THEN ReadSigned(buf, 2, 4).v ELSE -1]
    /\ UNCHANGED <<pc, archiveErr, currentTimeStamp, previousTimeStamp, instances, live,
                   removed>>

\* case RESOURCE_INSTANCE_CREATE_TOKEN of readRecords
readRecordsCreate ==
    /\ buf # <<>> /\ buf[1] = RESOURCE_INSTANCE_CREATE_TOKEN
    /\ \E now \in getCurrentTime(currentTimeStamp) :
       \E r \in {readResourceInstanceCreate(buf, 2, instances, now)} :
           /\ instances' = r.insts
           /\ buf' = Rest(buf, r.p)
           /\ faults' = IF r.ok THEN faults
                        ELSE Fault("create", resourceTypes, r.insts, Len(decoded))
           /\ live' = IF r.ok THEN live \cup {r.id} ELSE live
           /\ lastStep' = [RecordStep(buf[1], r.p - 1) EXCEPT
                               !.short = r.hit,
                               !.id = IF r.ok THEN r.id ELSE -1,
                               !.tid = IF r.ok THEN r.insts[r.id].TypeID ELSE -1]
    /\ UNCHANGED <<pc, archiveErr, currentTimeStamp, previousTimeStamp, resourceTypes,
                   removed>>

\* case RESOURCE_INSTANCE_DELETE_TOKEN of readRecords
readRecordsDelete ==
    /\ buf # <<>> /\ buf[1] = RESOURCE_INSTANCE_DELETE_TOKEN
    /\ \E r \in {readResourceInstanceDelete(buf, 2, instances)} :
           /\ instances' = r.insts
           /\ buf' = Rest(buf, r.p)
           /\ faults' = IF r.ok THEN faults
                        ELSE Fault("delete", resourceTypes, r.insts, Len(decoded))
           /\ live' = IF r.ok THEN live \ {r.id} ELSE live
           /\ removed' = IF r.ok THEN removed \cup {r.id} ELSE removed
           /\ lastStep' = [RecordStep(buf[1], r.p - 1) EXCEPT !.short = r.hit]
    /\ UNCHANGED <<pc, archiveErr, currentTimeStamp, previousTimeStamp, resourceTypes>>

\* case RESOURCE_INSTANCE_INITIALIZE_TOKEN of readRecords
readRecordsInitialize ==
    /\ buf # <<>> /\ buf[1] = RESOURCE_INSTANCE_INITIALIZE_TOKEN
    /\ buf' = Rest(buf, 2)
    /\ lastStep' = RecordStep(buf[1], 1)
    /\ UNCHANGED <<pc, archiveErr, currentTimeStamp, previousTimeStamp, resourceTypes,
                   instances, faults, live, removed>>

\* the default case of readRecords: updateTimeStamp(token), up to the call of
\* readSampleData
readRecordsDefault ==
    /\ buf # <<>>
    /\ buf[1] \notin {RESOURCE_TYPE_TOKEN, RESOURCE_INSTANCE_CREATE_TOKEN,
                      RESOURCE_INSTANCE_DELETE_TOKEN, RESOURCE_INSTANCE_INITIALIZE_TOKEN}
    /\ \E u \in {updateTimeStamp(buf, 2, buf[1], currentTimeStamp)} :
           /\ previousTimeStamp' = currentTimeStamp
           /\ currentTimeStamp' = u.clock
           /\ buf' = Rest(buf, u.p)
           /\ lastStep' = [RecordStep(buf[1], u.p - 1) EXCEPT !.short = u.hit]
    /\ pc' = "sampleData"
    /\ UNCHANGED <<archiveErr, resourceTypes, instances, faults, live, removed>>

\* one turn of the loop of readRecords: the token and the record it announces (for
\* a timestamp token, up to the call of readSampleData)
readRecords ==
    /\ pc = "records"
    /\ ~NeedMore \/ eof
    /\ \/ readRecordsEOF
       \/ readRecordsType
       \/ readRecordsCreate
       \/ readRecordsDelete
       \/ readRecordsInitialize
       \/ readRecordsDefault
    /\ UNCHANGED <<eof, fed, curInst, archiveVersion, startTimeStamp, sink, visited,
                   commits, convertErr, decoded, ref>>
    /\ UNCHANGED <<codec, writeFault, cancel, pool, watch, names, file>>

\* one turn of the loop of readSampleData: a resource id, and for an id the lookups
\* that open readInstanceSampleData
readSampleData ==
    /\ pc = "sampleData"
    /\ ~NeedMore \/ eof
    /\ \E id \in {readResourceInstanceId(buf, 1)} :
           /\ buf' = Rest(buf, id.p)
           /\ lastStep' = [StepOf("id", id.v, id.p - 1) EXCEPT !.short = id.hit]
           /\ IF ~id.ok
              THEN /\ pc' = "records"
                   /\ faults' = Fault("row", resourceTypes, instances, Len(decoded))
                   /\ UNCHANGED curInst
              ELSE IF id.v = -1
              THEN /\ pc' = "records"
                   /\ UNCHANGED <<faults, curInst>>
              ELSE IF lookupInstance(instances, resourceTypes, id.v) # "found"
              THEN /\ pc' = "sampleData"
                   /\ faults' = Fault(lookupInstance(instances, resourceTypes, id.v),
                                      resourceTypes, instances, Len(decoded))
                   /\ UNCHANGED curInst
              ELSE /\ pc' = "instanceData"
                   /\ curInst' = id.v
                   /\ UNCHANGED faults
    /\ UNCHANGED <<eof, fed, archiveVersion, startTimeStamp, currentTimeStamp,
                   previousTimeStamp, resourceTypes, instances, archiveErr, sink, visited,
                   commits, convertErr, decoded, ref, live, removed>>
    /\ UNCHANGED <<codec, writeFault, cancel, pool, watch, names, file>>

\* one turn of the offset loop of readInstanceSampleData
readInstanceSample ==
    /\ pc = "instanceData"
    /\ ~NeedMore \/ eof
    /\ \E ts \in getCurrentTime(currentTimeStamp) :
       \E r \in {readInstanceSampleData(buf, 1, instances, resourceTypes, curInst, ts,
                                        Len(decoded) + 1)} :
           /\ buf' = Rest(buf, r.p)
           /\ instances' = r.insts
           /\ lastStep' = [StepOf(r.what, r.offset, r.p - 1) EXCEPT
                              !.short = r.hit,
                              !.n = Len(resourceTypes[instances[curInst].TypeID].Stats)]
           /\ IF r.what = "stored"
              THEN /\ decoded' = Append(decoded,
                           [inst |-> curInst, off |-> r.offset, value |-> r.value,
                            clock |-> currentTimeStamp, ts |-> ts,
                            n |-> Len(resourceTypes[instances[curInst].TypeID].Stats),
                            live |-> curInst \in live])
                   /\ UNCHANGED <<pc, faults, curInst>>
              ELSE IF r.what = "end"
              THEN /\ pc' = "sampleData"
                   /\ UNCHANGED <<decoded, faults, curInst>>
              ELSE /\ pc' = "sampleData"
                   /\ faults' = Fault("stat", resourceTypes, instances, Len(decoded))
                   /\ UNCHANGED <<decoded, curInst>>
    /\ UNCHANGED <<eof, fed, archiveVersion, startTimeStamp, currentTimeStamp,
                   previousTimeStamp, resourceTypes, archiveErr, sink, visited, commits,
                   convertErr, ref, live, removed>>
    /\ UNCHANGED <<codec, writeFault, cancel, pool, watch, names, file>>

\* the sequence ws without its k-th element (ws itself for k = 0)
Without(ws, k) == [i \in 1..(Len(ws) - (IF k = 0 THEN 0 ELSE 1)) |->
                      IF k = 0 \/ i < k THEN ws[i] ELSE ws[i + 1]]

\* one turn of the range loop of convertWithReader over the instances: the order in
\* which a map is ranged over is not fixed; k is the WriteMetric call of this turn
\* that returns an error (0: none does), which is logged and skipped
convertWithReader(id, k) ==
    /\ pc = "convert"
    /\ id \in DOMAIN instances \ visited
    /\ k \in 0..Len(writesOf(instances[id], resourceTypes, DefaultPrefix))
    /\ visited' = visited \cup {id}
    /\ sink' = sink \o Without(writesOf(instances[id], resourceTypes, DefaultPrefix), k)
    /\ writeFault' = IF k = 0 \/ writeFault.seen THEN writeFault
                     ELSE [seen |-> TRUE, n |-> Len(sink) + k - 1]
    /\ lastStep' = [NoStep EXCEPT !.op = "convert"]
    /\ UNCHANGED <<buf, eof, fed, pc, curInst, archiveVersion, startTimeStamp,
                   currentTimeStamp, previousTimeStamp, resourceTypes, instances,
                   archiveErr, commits, convertErr, decoded, faults, ref, live, removed>>
    /\ UNCHANGED <<codec, cancel, pool, watch, names, file>>

\* the end of convertWithReader: Writer.Commit, which may fail
Commit(ok) ==
    /\ pc = "convert"
    /\ visited = DOMAIN instances
    /\ commits' = commits + 1
    /\ convertErr' = IF ok THEN "nil" ELSE "error"
    /\ pc' = "done"
    /\ lastStep' = [NoStep EXCEPT !.op = "commit"]
    /\ UNCHANGED <<buf, eof, fed, curInst, archiveVersion, startTimeStamp,
                   currentTimeStamp, previousTimeStamp, resourceTypes, instances,
                   archiveErr, sink, visited, decoded, faults, ref, live, removed>>
    /\ UNCHANGED <<codec, writeFault, cancel, pool, watch, names, file>>

\* which WriteMetric call of a turn of the range loop fails: none, or the k-th
WriteChoices == 0..MaxWrites

Next ==
    \/ \E e \in Chunks : Feed(e)
    \/ EndOfFile
    \/ ReadArchive
    \/ readRecords
    \/ readSampleData
    \/ readInstanceSample
    \/ \E id \in DOMAIN instances, k \in WriteChoices : convertWithReader(id, k)
    \/ \E ok \in BOOLEAN : Commit(ok)

Spec == Init /\ [][Next]_vars

-----------------------------------------------------------------------------
(* The compact codec on its own: one stat value of a changed-stat block      *)
(*                                                                           *)
(* A 64-bit value does not fit the integers of the checker, so a value of    *)
(* the format is written as the shortest big-endian two's-complement byte    *)
(* sequence that holds it (<<255, 0>> is -256, <<0, 128>> is 128).           *)

\* the shortest two's-complement byte sequence with the value of b
RECURSIVE Canon(_)
Canon(b) ==
    IF /\ Len(b) > 1
       /\ \/ b[1] = 0 /\ b[2] < 128
          \/ b[1] = 255 /\ b[2] >= 128
    THEN Canon(Tail(b))
    ELSE b

\* n bytes: first, then fill in every later place
Filled(first, fill, n) == [i \in 1..n |-> IF i = 1 THEN first ELSE fill]

\* the values read: small literals, and at every payload width the least and the
\* greatest value of the width and the two values just outside the width below
CodecWidths == 2..8
CodecLiterals == {<<0>>, <<1>>, <<42>>, <<127>>, <<255>>, <<129>>, <<136>>, <<135>>, <<128>>}
CodecValues ==
    CodecLiterals
      \cup {<<1, 0>>, <<255, 0>>}
      \cup UNION {{Filled(128, 0, n), Filled(127, 255, n),
                   <<0>> \o Filled(128, 0, n - 1),
                   <<255>> \o Filled(127, 255, n - 1)} : n \in CodecWidths}

\* the compact encoding of the value b: one literal byte for -120..127, the token
\* -128 and two bytes for the other 16-bit values, the token -127..-122 and the
\* 3..8 bytes of the value otherwise
EncCompactBytes(b) ==
    IF Len(b) = 1 /\ Int8(b[1]) >= -120 THEN b
    ELSE IF Len(b) = 1 THEN <<128, 255, b[1]>>
    ELSE IF Len(b) = 2 THEN <<128>> \o b
    ELSE <<126 + Len(b)>> \o b

\* the compact decoding of the format: the value at s[p] and the index after it
RefCompact(s, p) ==
    With(Int8(s[p]), LAMBDA t :
        With(IF t = -128 THEN 2 ELSE IF t >= -127 /\ t <= -122 THEN t + 130 ELSE 0,
             LAMBDA n :
                IF n = 0 THEN [ok |-> TRUE, v |-> <<s[p]>>, p |-> p + 1]
                ELSE IF p + n > Len(s) THEN [ok |-> FALSE, v |-> <<>>, p |-> Len(s) + 1]
                ELSE [ok |-> TRUE, v |-> Canon(SubSeq(s, p + 1, p + n)), p |-> p + 1 + n]))

\* the decoding examples of the format description: bytes and value
CodecVectors ==
    {[in |-> <<0>>, value |-> <<0>>],
     [in |-> <<127>>, value |-> <<127>>],
     [in |-> <<129>>, value |-> <<129>>],
     [in |-> <<128, 1, 0>>, value |-> <<1, 0>>],
     [in |-> <<129, 255, 255, 255, 0>>, value |-> <<255, 0>>],
     [in |-> <<130, 128, 0, 0, 0>>, value |-> <<128, 0, 0, 0>>]}

\* the byte strings read: the encoding of every value, and the examples
CodecCases ==
    {[in |-> EncCompactBytes(b), value |-> b] : b \in CodecValues} \cup CodecVectors

\* the descriptor type codes whose values are compact
CodecKinds ==
    {BOOLEAN_TYPE_CODE, CHAR_TYPE_CODE, BYTE_TYPE_CODE, SHORT_TYPE_CODE,
     INT_TYPE_CODE, LONG_TYPE_CODE, WCHAR_TYPE_CODE}

\* a descriptor kind and the bytes of one value, ready to be read
CodecInit ==
    /\ \E c \in CodecCases, k \in CodecKinds :
          codec = [CodecIdle EXCEPT !.state = "ready", !.kind = k,
                                    !.in = c.in, !.value = c.value]
    /\ buf = <<>>
    /\ eof = TRUE
    /\ fed = 0
    /\ pc = "codec"
    /\ curInst = 0
    /\ archiveVersion = 0
    /\ startTimeStamp = 0
    /\ currentTimeStamp = 0
    /\ previousTimeStamp = 0
    /\ resourceTypes = EmptyFn
    /\ instances = EmptyFn
    /\ archiveErr = "none"
    /\ sink = <<>>
    /\ visited = {}
    /\ commits = 0
    /\ convertErr = "none"
    /\ decoded = <<>>
    /\ faults = NoFault
    /\ lastStep = NoStep
    /\ live = {}
    /\ removed = {}
    /\ writeFault = NoWriteFault
    /\ cancel = NoCancel
    /\ pool = PoolIdle
    /\ watch = WatchIdle
    /\ names = NamesIdle
    /\ file = <<>>
    /\ ref = RefBad

\* readStatValue on the bytes, for a stat whose descriptor has the kind
CodecRead ==
    /\ pc = "codec"
    /\ codec.state = "ready"
    /\ codec' = [codec EXCEPT !.state = "decoded",
                              !.out = readStatValue(codec.in, 1, convertTypeCode(codec.kind))]
    /\ UNCHANGED <<buf, eof, fed, pc, curInst, archiveVersion, startTimeStamp,
                   currentTimeStamp, previousTimeStamp, resourceTypes, instances,
                   archiveErr, sink, visited, commits, convertErr, decoded, faults,
                   lastStep, live, removed, writeFault, cancel, pool, watch, names, file, ref>>

CodecNext == CodecRead

CodecSpec == CodecInit /\ [][CodecNext]_vars

-----------------------------------------------------------------------------
(* One-byte differences of a minimal archive                                 *)

\* a minimal archive: a header, one type with one stat, one instance, one sample row
MinimalEvents == <<TypeT, Create1, RowA>>
MinimalArchive ==
    EncHeader(HEADER_TOKEN, ARCHIVE_VERSION, 1000)
        \o Concat([i \in 1..Len(MinimalEvents) |-> Encode(MinimalEvents[i])])

\* the byte b with bit k inverted
FlipByte(b, k) == IF (b \div (2 ^ k)) % 2 = 1 THEN b - 2 ^ k ELSE b + 2 ^ k

FlipBits == 0..7

\* the bytes that differ: every byte but the upper five of the start time (bytes
\* 3..7 of the header), whose values are beyond the integers of the checker
FlipPositions == {i \in 1..Len(MinimalArchive) : i < 3 \/ i > 7}

\* the whole file is there, one byte of it differs from the minimal archive
FlipInit ==
    /\ \E i \in FlipPositions, k \in FlipBits :
          buf = [MinimalArchive EXCEPT ![i] = FlipByte(@, k)]
    /\ ref = RefApplyAll(RefInit(1000), MinimalEvents)
    /\ eof = TRUE
    /\ fed = 0
    /\ pc = "header"
    /\ curInst = 0
    /\ archiveVersion = 0
    /\ startTimeStamp = 0
    /\ currentTimeStamp = 0
    /\ previousTimeStamp = 0
    /\ resourceTypes = EmptyFn
    /\ instances = EmptyFn
    /\ archiveErr = "none"
    /\ sink = <<>>
    /\ visited = {}
    /\ commits = 0
    /\ convertErr = "none"
    /\ decoded = <<>>
    /\ faults = NoFault
    /\ lastStep = NoStep
    /\ live = {}
    /\ removed = {}
    /\ codec = CodecIdle
    /\ writeFault = NoWriteFault
    /\ cancel = NoCancel
    /\ pool = PoolIdle
    /\ watch = WatchIdle
    /\ names = NamesIdle
    /\ file = <<>>

FlipNext ==
    \/ ReadArchive
    \/ readRecords
    \/ readSampleData
    \/ readInstanceSample
    \/ \E id \in DOMAIN instances, k \in WriteChoices : convertWithReader(id, k)
    \/ \E ok \in BOOLEAN : Commit(ok)

FlipSpec == FlipInit /\ [][FlipNext]_vars

-----------------------------------------------------------------------------
(* The minimal archive cut short                                             *)

\* the length of the minimal archive up to and including its first n events
BoundaryAfter(n) ==
    Len(EncHeader(HEADER_TOKEN, ARCHIVE_VERSION, 1000))
        + Len(Concat([i \in 1..n |-> Encode(MinimalEvents[i])]))

\* the lengths at which the file may end
TruncLengths == 0..Len(MinimalArchive)

\* the whole file is there: the first n bytes of the minimal archive; the events
\* mean something when the file ends after the header or after a whole record
TruncInit ==
    /\ \E n \in TruncLengths :
          /\ buf = SubSeq(MinimalArchive, 1, n)
          /\ ref = IF \E m \in 0..Len(MinimalEvents) : n = BoundaryAfter(m)
                   THEN RefApplyAll(RefInit(1000),
                            SubSeq(MinimalEvents, 1,
                                   CHOOSE m \in 0..Len(MinimalEvents) : n = BoundaryAfter(m)))
                   ELSE RefBad
    /\ eof = TRUE
    /\ fed = 0
    /\ pc = "header"
    /\ curInst = 0
    /\ archiveVersion = 0
    /\ startTimeStamp = 0
    /\ currentTimeStamp = 0
    /\ previousTimeStamp = 0
    /\ resourceTypes = EmptyFn
    /\ instances = EmptyFn
    /\ archiveErr = "none"
    /\ sink = <<>>
    /\ visited = {}
    /\ commits = 0
    /\ convertErr = "none"
    /\ decoded = <<>>
    /\ faults = NoFault
    /\ lastStep = NoStep
    /\ live = {}
    /\ removed = {}
    /\ codec = CodecIdle
    /\ writeFault = NoWriteFault
    /\ cancel = NoCancel
    /\ pool = PoolIdle
    /\ watch = WatchIdle
    /\ names = NamesIdle
    /\ file = <<>>

TruncNext ==
    \/ ReadArchive
    \/ readRecords
    \/ readSampleData
    \/ readInstanceSample
    \/ \E id \in DOMAIN instances, k \in WriteChoices : convertWithReader(id, k)
    \/ \E ok \in BOOLEAN : Commit(ok)

TruncSpec == TruncInit /\ [][TruncNext]_vars

-----------------------------------------------------------------------------
(* Processor.ProcessDirectory: one goroutine per discovered file, a channel   *)
(* of capacity Concurrency as semaphore, one Converter (one tsdb.Writer)      *)
(* shared by all of them                                                      *)

\* samples each discovered file holds
PoolSamples == 2

\* a send on the semaphore channel proceeds when the buffer has room; a channel of
\* capacity 0 has no receiver here and never has room
semCanSendAlways(n, c) == TRUE
semCanSend(n, c) == n < c

\* the workers whose processFile call is in progress
InProgress == {f \in pool.files : pool.wpc[f] \in {"parse", "write", "close"}}

\* ProcessDirectory has discovered the files of a root directory (at least one) and
\* spawned one goroutine per entry of the list
\* the default --node-pattern list, each pattern by its path segments
NodePatterns ==
    << <<"*", "stats", "*-stats.gfs">>, <<"*", "*", "*-stats.gfs">>,
       <<"*", "data", "*-stats.gfs">>, <<"*", "stats", "*.gfs">>,
       <<"*", "*-stats.gfs">>, <<"*", "persistent-data", "*-stats.gfs">>,
       <<"*", "logs", "*-stats.gfs">> >>

\* files a root directory may hold, by their path segments below the root, in the
\* order of their names
TreePaths ==
    << <<"server-1", "notes.txt">>, <<"server-1", "server-1-stats.gfs">>,
       <<"server-1", "stats", "server-1-stats.gfs">>,
       <<"server-1", "stats", "statistics.gfs">> >>

\* filepath.Glob: the pattern matches the path segment by segment; '*' stands for
\* any run of characters of one segment
Glob(path, pattern) ==
    /\ Len(path) = Len(pattern)
    /\ \A i \in 1..Len(path) :
          \/ pattern[i] \in {"*", path[i]}
          \/ pattern[i] = "*-stats.gfs" /\ path[i] = "server-1-stats.gfs"
          \/ pattern[i] = "*.gfs" /\ path[i] \in {"server-1-stats.gfs", "statistics.gfs"}

\* discoverFiles: for each pattern in turn, the matches of the pattern are appended
\* (none of the files is excluded, every file gets a node name); dir is the set
\* of indices of TreePaths the root holds, the result names the files by index
discoverFiles(dir) ==
    Concat([k \in 1..Len(NodePatterns) |->
               SelectSeq([i \in 1..Len(TreePaths) |-> i],
                         LAMBDA i : i \in dir /\ Glob(TreePaths[i], NodePatterns[k]))])

PoolInit ==
    /\ \E dir \in SUBSET (1..Len(TreePaths)), c \in 0..MaxConcurrency :
       \E n \in {Len(discoverFiles(dir))} :
          /\ n \in 1..MaxFiles
          /\ pool = [state |-> "run", files |-> 1..n, c |-> c, sem |-> 0,
                  path |-> discoverFiles(dir),
                  wpc |-> [f \in 1..n |-> "spawned"],
                  left |-> [f \in 1..n |-> PoolSamples],
                  appended |-> [f \in 1..n |-> 0],
                  flushes |-> [f \in 1..n |-> 0],
                  result |-> [f \in 1..n |-> "none"],
                  dbOpen |-> TRUE, appender |-> "fresh", closedUse |-> FALSE,
                  errors |-> 0, returned |-> "none"]
    /\ buf = <<>>
    /\ eof = TRUE
    /\ fed = 0
    /\ pc = "pool"
    /\ curInst = 0
    /\ archiveVersion = 0
    /\ startTimeStamp = 0
    /\ currentTimeStamp = 0
    /\ previousTimeStamp = 0
    /\ resourceTypes = EmptyFn
    /\ instances = EmptyFn
    /\ archiveErr = "none"
    /\ sink = <<>>
    /\ visited = {}
    /\ commits = 0
    /\ convertErr = "none"
    /\ decoded = <<>>
    /\ faults = NoFault
    /\ lastStep = NoStep
    /\ live = {}
    /\ removed = {}
    /\ codec = CodecIdle
    /\ writeFault = NoWriteFault
    /\ cancel = NoCancel
    /\ watch = WatchIdle
    /\ names = NamesIdle
    /\ file = <<>>
    /\ ref = RefBad

PoolRest ==
    UNCHANGED <<buf, eof, fed, pc, curInst, archiveVersion, startTimeStamp,
                currentTimeStamp, previousTimeStamp, resourceTypes, instances,
                archiveErr, sink, visited, commits, convertErr, decoded, faults,
                lastStep, live, removed, codec, writeFault, cancel, watch, names, file, ref>>

\* semaphore <- struct{}{}
PoolAcquire(f) ==
    /\ pool.state = "run" /\ pool.wpc[f] = "spawned"
    /\ semCanSend(pool.sem, pool.c)
    /\ pool' = [pool EXCEPT !.sem = @ + 1, !.wpc[f] = "parse"]
    /\ PoolRest

\* ClusterConverter.ConvertFile: NewGeodeParser and ParseGeode, which may fail
PoolParse(f, ok) ==
    /\ pool.state = "run" /\ pool.wpc[f] = "parse"
    /\ pool' = IF ok THEN [pool EXCEPT !.wpc[f] = "write"]
               ELSE [pool EXCEPT !.wpc[f] = "release", !.result[f] = "error"]
    /\ PoolRest

\* ClusterConverter.ConvertFile: one writeMetric call of the write loop; an error
\* is returned at once
PoolWrite(f, ok) ==
    /\ pool.state = "run" /\ pool.wpc[f] = "write"
    /\ pool' = IF ok
               THEN [pool EXCEPT !.appended[f] = @ + 1, !.left[f] = @ - 1,
                                 !.wpc[f] = IF pool.left[f] = 1 THEN "close" ELSE "write",
                                 !.closedUse = @ \/ ~pool.dbOpen]
               ELSE [pool EXCEPT !.wpc[f] = "release", !.result[f] = "error",
                                 !.closedUse = @ \/ ~pool.dbOpen]
    /\ PoolRest

\* ClusterConverter.ConvertFile: Converter.Close, that is Writer.Close: Commit, and
\* when Commit succeeded db.Close, whose error is returned.  Commit replaces the
\* appender by a fresh one when appender.Commit succeeded and keeps the committed
\* one when it failed
PoolClose(f, commitOk, closeOk) ==
    /\ pool.state = "run" /\ pool.wpc[f] = "close"
    /\ pool' = IF ~commitOk
               THEN [pool EXCEPT !.wpc[f] = "release", !.result[f] = "error",
                                 !.flushes[f] = @ + 1,
                                 !.appender = "committed",
                                 !.closedUse = @ \/ ~pool.dbOpen]
               ELSE [pool EXCEPT !.wpc[f] = "release",
                                 !.result[f] = IF closeOk THEN "nil" ELSE "error",
                                 !.flushes[f] = @ + 1,
                                 !.appender = "fresh",
                                 !.dbOpen = FALSE,
                                 !.closedUse = @ \/ ~pool.dbOpen]
    /\ PoolRest

\* the end of a goroutine that drops the error of processFile
PoolReleaseDropsError(f) ==
    /\ pool.state = "run" /\ pool.wpc[f] = "release"
    /\ pool' = [pool EXCEPT !.wpc[f] = "done", !.sem = @ - 1]
    /\ PoolRest

\* the end of the goroutine: the error is appended to errors, the semaphore is
\* received from, wg.Done
PoolRelease(f) ==
    /\ pool.state = "run" /\ pool.wpc[f] = "release"
    /\ pool' = [pool EXCEPT !.wpc[f] = "done", !.sem = @ - 1,
                            !.errors = IF pool.result[f] = "error" THEN @ + 1 ELSE @]
    /\ PoolRest

\* wg.Wait returns and ProcessDirectory reports
PoolReturn ==
    /\ pool.state = "run"
    /\ \A f \in pool.files : pool.wpc[f] = "done"
    /\ pool' = [pool EXCEPT !.state = "returned",
                            !.returned = IF pool.errors > 0 THEN "error" ELSE "nil"]
    /\ PoolRest

PoolNext ==
    \/ \E f \in pool.files : PoolAcquire(f)
    \/ \E f \in pool.files, ok \in BOOLEAN : PoolParse(f, ok)
    \/ \E f \in pool.files, ok \in BOOLEAN : PoolWrite(f, ok)
    \/ \E f \in pool.files, commitOk \in BOOLEAN, closeOk \in BOOLEAN :
          PoolClose(f, commitOk, closeOk)
    \/ \E f \in pool.files : PoolRelease(f)
    \/ PoolReturn

PoolSpec == PoolInit /\ [][PoolNext]_vars

\* the scheduler runs every goroutine that can take a step, a blocked send on the
\* semaphore is served when room comes up again and again, every conversion step
\* returns, and wg.Wait returns once the counter is zero
PoolFairSpec ==
    /\ PoolSpec
    /\ \A f \in 1..MaxFiles :
          /\ SF_vars(f \in pool.files /\ PoolAcquire(f))
          /\ WF_vars(f \in pool.files /\ \E ok \in BOOLEAN : PoolParse(f, ok))
          /\ WF_vars(f \in pool.files /\ \E ok \in BOOLEAN : PoolWrite(f, ok))
          /\ WF_vars(f \in pool.files
                        /\ \E commitOk \in BOOLEAN, closeOk \in BOOLEAN :
                              PoolClose(f, commitOk, closeOk))
          /\ WF_vars(f \in pool.files /\ PoolRelease(f))
    /\ WF_vars(PoolReturn)

-----------------------------------------------------------------------------
(* formatMetricName on its own: the two implementations applied to names     *)
(* with upper case, single and double spaces, a tab and hyphens              *)

\* "A", "a b", "a  b", "a-b", "a<TAB>b", "a -b", "Ab", "x"
NameTexts ==
    {<<65>>, <<97, 32, 98>>, <<97, 32, 32, 98>>, <<97, 45, 98>>, <<97, 9, 98>>,
     <<97, 32, 45, 98>>, <<65, 98>>, <<120>>}

\* Config.MetricPrefix: unset, the default, "p"
NamePrefixes == {<<>>, DefaultPrefix, <<112>>}

\* ClusterConverter.formatMetricName: the prefix is fixed
clusterFormatMetricName(resourceType, statName) ==
    formatMetricName(DefaultPrefix, resourceType, statName)

\* whitespace (tab, line feed, vertical tab, form feed, carriage return, space) or '-'
IsSeparator(b) == b \in {9, 10, 11, 12, 13, 32, 45}

\* the normalisation of the format description: ASCII lower case, each maximal run
\* of separators becomes one '_'
RECURSIVE NormFrom(_, _)
NormFrom(s, i) ==
    IF i > Len(s) THEN <<>>
    ELSE IF IsSeparator(s[i])
         THEN (IF i > 1 /\ IsSeparator(s[i - 1]) THEN <<>> ELSE <<95>>) \o NormFrom(s, i + 1)
         ELSE <<ToLowerByte(s[i])>> \o NormFrom(s, i + 1)

NormName(s) == NormFrom(s, 1)

NameInit ==
    /\ \E p \in NamePrefixes, rt \in NameTexts, sn \in NameTexts :
          names = [state |-> "ready", prefix |-> p, resourceType |-> rt,
                   statName |-> sn, by |-> "", out |-> <<>>]
    /\ file = <<>>
    /\ buf = <<>>
    /\ eof = TRUE
    /\ fed = 0
    /\ pc = "names"
    /\ curInst = 0
    /\ archiveVersion = 0
    /\ startTimeStamp = 0
    /\ currentTimeStamp = 0
    /\ previousTimeStamp = 0
    /\ resourceTypes = <<>>
    /\ instances = <<>>
    /\ archiveErr = "none"
    /\ sink = <<>>
    /\ visited = {}
    /\ commits = 0
    /\ convertErr = "none"
    /\ decoded = <<>>
    /\ faults = NoFault
    /\ lastStep = NoStep
    /\ live = {}
    /\ removed = {}
    /\ codec = CodecIdle
    /\ writeFault = NoWriteFault
    /\ cancel = NoCancel
    /\ pool = PoolIdle
    /\ watch = WatchIdle
    /\ ref = RefBad

NameRest ==
    UNCHANGED <<buf, eof, fed, pc, curInst, archiveVersion, startTimeStamp,
                currentTimeStamp, previousTimeStamp, resourceTypes, instances,
                archiveErr, sink, visited, commits, convertErr, decoded, faults,
                lastStep, live, removed, codec, writeFault, cancel, pool, watch, file, ref>>

\* c.formatMetricName(resType.Name, stat.Name)
FormatByConverter ==
    /\ names.state = "ready"
    /\ names' = [names EXCEPT !.state = "done", !.by = "Converter",
                              !.out = formatMetricName(names.prefix, names.resourceType,
                                                       names.statName)]
    /\ NameRest

\* cc.formatMetricName(resType.Name, stat.Name)
FormatByClusterConverter ==
    /\ names.state = "ready"
    /\ names' = [names EXCEPT !.state = "done", !.by = "ClusterConverter",
                              !.out = clusterFormatMetricName(names.resourceType,
                                                              names.statName)]
    /\ NameRest

NameNext ==
    \/ FormatByConverter
    \/ FormatByClusterConverter

NameSpec == NameInit /\ [][NameNext]_vars

-----------------------------------------------------------------------------
(* Scenario S1: the literal bytes of the format description's minimal        *)
(* archive, delivered to the reader in pieces of any length                  *)

S1Archive ==
    <<77, 4, 0, 0, 0, 0, 0, 0, 3, 232, 0, 0, 0, 0, 0, 0,
      0, 1, 0, 0, 0, 0, 0, 0, 39, 16, 0, 0, 0, 0, 0, 2,
      85, 84, 67, 0, 0, 0, 0, 1, 84, 1, 0, 1, 0, 0, 0, 10,
      0, 1, 88, 5, 0, 0, 0, 0, 0, 2, 0, 0, 0, 0, 0, 0,
      0, 2, 0, 1, 89, 0, 0, 0, 0, 0, 0, 0, 3, 0, 0, 0,
      10, 0, 0, 5, 2, 0, 42, 255, 255>>

\* the minimal archive with a start time of 100 seconds before the epoch
EarlyArchive ==
    EncHeader(HEADER_TOKEN, ARCHIVE_VERSION, 0 - 100000)
        \o Concat([i \in 1..Len(MinimalEvents) |-> Encode(MinimalEvents[i])])

\* the minimal archive with the type named "A", U+0000, "B": in modified UTF-8 the
\* bytes 41 C0 80 42
NulArchive ==
    EncHeader(HEADER_TOKEN, ARCHIVE_VERSION, 1000)
        \o Encode([TypeT EXCEPT !.name = <<65, 192, 128, 66>>])
        \o Encode(Create1) \o Encode(RowA)

\* the minimal archive with a row that names the instance 4294967295: delta 5, the
\* id FE FF FF FF FF, offset 0 with value 42, end of the block, end of the row
WideIdArchive ==
    EncHeader(HEADER_TOKEN, ARCHIVE_VERSION, 1000)
        \o Encode(TypeT) \o Encode(Create1)
        \o <<5, INT_RESOURCE_INST_ID_TOKEN, 255, 255, 255, 255, 0, 42,
             ILLEGAL_STAT_OFFSET, ILLEGAL_RESOURCE_INST_ID_TOKEN>>

\* the bytes of S1, the same scenario under the header layout readHeader reads, that
\* one with the early start time, with the NUL in the type name, with the wide id
S1Files == {S1Archive, MinimalArchive, EarlyArchive, NulArchive, WideIdArchive}

S1Init ==
    /\ file \in S1Files
    /\ \E n \in 0..Len(file) :
          /\ buf = SubSeq(file, 1, n)
          /\ fed = n
    /\ eof = FALSE
    /\ pc = "header"
    /\ curInst = 0
    /\ archiveVersion = 0
    /\ startTimeStamp = 0
    /\ currentTimeStamp = 0
    /\ previousTimeStamp = 0
    /\ resourceTypes = <<>>
    /\ instances = <<>>
    /\ archiveErr = "none"
    /\ sink = <<>>
    /\ visited = {}
    /\ commits = 0
    /\ convertErr = "none"
    /\ decoded = <<>>
    /\ faults = NoFault
    /\ lastStep = NoStep
    /\ live = {}
    /\ removed = {}
    /\ codec = CodecIdle
    /\ writeFault = NoWriteFault
    /\ cancel = NoCancel
    /\ pool = PoolIdle
    /\ watch = WatchIdle
    /\ names = NamesIdle
    /\ ref = RefBad

\* the next bytes of the file reach the reader; fed counts the bytes delivered
S1Feed ==
    /\ ~eof /\ NeedMore /\ fed < Len(file)
    /\ \E m \in (fed + 1)..Len(file) :
          /\ buf' = buf \o SubSeq(file, fed + 1, m)
          /\ fed' = m
    /\ UNCHANGED <<eof, pc, curInst, archiveVersion, startTimeStamp, currentTimeStamp,
                   previousTimeStamp, resourceTypes, instances, archiveErr, sink,
                   visited, commits, convertErr, decoded, faults, lastStep, live, removed,
                   codec, writeFault, cancel, pool, watch, names, file, ref>>

\* the file ends after its last byte
S1End ==
    /\ fed = Len(file)
    /\ EndOfFile

S1Next ==
    \/ S1Feed
    \/ S1End
    \/ ReadArchive
    \/ readRecords
    \/ readSampleData
    \/ readInstanceSample
    \/ \E id \in DOMAIN instances, k \in WriteChoices : convertWithReader(id, k)
    \/ \E ok \in BOOLEAN : Commit(ok)

S1Spec == S1Init /\ [][S1Next]_vars

-----------------------------------------------------------------------------
(* A caller that asks to cancel while ReadArchive runs.  ConvertFile takes a  *)
(* file name and nothing else, and the reader polls nothing: the request is   *)
(* a fact of the environment only.                                            *)

\* the caller asks to cancel the running decode
RequestCancel ==
    /\ pc \in {"header", "records", "sampleData", "instanceData"}
    /\ ~cancel.seen
    /\ cancel' = [seen |-> TRUE, n |-> Len(decoded), types |-> DOMAIN resourceTypes,
                  insts |-> DOMAIN instances]
    /\ UNCHANGED <<buf, eof, fed, pc, curInst, archiveVersion, startTimeStamp,
                   currentTimeStamp, previousTimeStamp, resourceTypes, instances,
                   archiveErr, sink, visited, commits, convertErr, decoded, faults,
                   lastStep, live, removed, codec, writeFault, pool, watch, names,
                   file, ref>>

CancelNext ==
    \/ RequestCancel
    \/ S1Next

CancelSpec == S1Init /\ [][CancelNext]_vars

-----------------------------------------------------------------------------
(* Watcher: the event loop starts one goroutine per Write or Create event on  *)
(* a .gfs file; the goroutine marks the file name in processedFiles, converts *)
(* the file and removes the mark when the conversion failed                   *)

\* the files of the watched directory; file 3 is not a .gfs file
WatchFiles == {1, 2, 3}

isGFSFile(f) == f # 3

\* Watcher.Start: nothing received yet.  converting counts the ConvertFile calls in
\* progress per file; owed (history) holds the files with an event that no
\* conversion has started after, failed (history) the files whose last conversion
\* returned an error
WatchInit ==
    /\ watch = [state |-> "run", events |-> 0,
                spawned |-> [f \in WatchFiles |-> 0],
                processedFiles |-> {}, converting |-> [f \in WatchFiles |-> 0],
                started |-> [f \in WatchFiles |-> 0], owed |-> {}, failed |-> {}]
    /\ buf = <<>>
    /\ eof = TRUE
    /\ fed = 0
    /\ pc = "watch"
    /\ curInst = 0
    /\ archiveVersion = 0
    /\ startTimeStamp = 0
    /\ currentTimeStamp = 0
    /\ previousTimeStamp = 0
    /\ resourceTypes = <<>>
    /\ instances = <<>>
    /\ archiveErr = "none"
    /\ sink = <<>>
    /\ visited = {}
    /\ commits = 0
    /\ convertErr = "none"
    /\ decoded = <<>>
    /\ faults = NoFault
    /\ lastStep = NoStep
    /\ live = {}
    /\ removed = {}
    /\ codec = CodecIdle
    /\ writeFault = NoWriteFault
    /\ cancel = NoCancel
    /\ pool = PoolIdle
    /\ names = NamesIdle
    /\ file = <<>>
    /\ ref = RefBad

WatchRest ==
    UNCHANGED <<buf, eof, fed, pc, curInst, archiveVersion, startTimeStamp,
                currentTimeStamp, previousTimeStamp, resourceTypes, instances,
                archiveErr, sink, visited, commits, convertErr, decoded, faults,
                lastStep, live, removed, codec, writeFault, cancel, pool, names,
                file, ref>>

\* watch: one event of fsWatcher.Events
WatchEvent(f, op) ==
    /\ watch.state = "run"
    /\ watch.events < MaxEvents
    /\ watch' = IF op \in {"Write", "Create"} /\ isGFSFile(f)
                THEN [watch EXCEPT !.events = @ + 1, !.spawned[f] = @ + 1,
                                   !.owed = @ \cup {f}]
                ELSE [watch EXCEPT !.events = @ + 1]
    /\ WatchRest

\* processFile without the test of processedFiles
WatchProcessFileUnmarked(f) ==
    /\ watch.state = "run"
    /\ watch.spawned[f] > 0
    /\ watch' = [watch EXCEPT !.spawned[f] = @ - 1,
                              !.processedFiles = @ \cup {f},
                              !.converting[f] = @ + 1,
                              !.started[f] = @ + 1,
                              !.owed = @ \ {f},
                              !.failed = @ \ {f}]
    /\ WatchRest

\* processFile up to the call of ConvertFile
WatchProcessFile(f) ==
    /\ watch.state = "run"
    /\ watch.spawned[f] > 0
    /\ watch' = IF f \in watch.processedFiles
                THEN [watch EXCEPT !.spawned[f] = @ - 1]
                ELSE [watch EXCEPT !.spawned[f] = @ - 1,
                                   !.processedFiles = @ \cup {f},
                                   !.converting[f] = @ + 1,
                                   !.started[f] = @ + 1,
                                   !.owed = @ \ {f},
                                   !.failed = @ \ {f}]
    /\ WatchRest

\* ConvertFile returns, processFile ends
WatchConvertDone(f, ok) ==
    /\ watch.state = "run"
    /\ watch.converting[f] > 0
    /\ watch' = [watch EXCEPT !.converting[f] = @ - 1,
                              !.processedFiles = IF ok THEN @ ELSE @ \ {f},
                              !.failed = IF ok THEN @ ELSE @ \cup {f}]
    /\ WatchRest

WatchNext ==
    \/ \E f \in WatchFiles, op \in {"Write", "Create", "Remove"} : WatchEvent(f, op)
    \/ \E f \in WatchFiles : WatchProcessFile(f)
    \/ \E f \in WatchFiles, ok \in BOOLEAN : WatchConvertDone(f, ok)

\* every started goroutine runs on: the scheduler leaves none behind and a
\* conversion returns
WatchSpec ==
    /\ WatchInit
    /\ [][WatchNext]_vars
    /\ \A f \in WatchFiles :
          /\ WF_vars(WatchProcessFile(f))
          /\ WF_vars(\E ok \in BOOLEAN : WatchConvertDone(f, ok))

-----------------------------------------------------------------------------
(* Properties *)

\* C1: a protocol violation met while processing a record (a failing type
\* definition, instance create, instance delete or sample row) ends the decode with
\* an error: ReadArchive has returned an error, no later record is processed, and
\* the tables and the recorded samples are what they were at the violation.
C1_ViolationEndsDecode ==
    faults.seen =>
        /\ pc \in {"convert", "done"}
        /\ archiveErr = "error"
        /\ resourceTypes = faults.types
        /\ instances = faults.insts
        /\ Len(decoded) = faults.n

\* C2: a byte outside 0..4 read at record top level aborts the decode: the clock is
\* left unchanged by that byte, no following bytes are read as a sample row, and no
\* sample is recorded for it.
C2_ReservedByteAborts ==
    (lastStep.op = "record" /\ lastStep.token \notin 0..4) =>
        /\ archiveErr = "error"
        /\ currentTimeStamp = lastStep.clock
        /\ pc # "sampleData"
        /\ Len(decoded) = lastStep.count

\* the (timestamp, value) pairs of instance i, stat offset o, in stream order: as the
\* encoded events give them, and as the reader stored them
RefPairs(i, o) ==
    With(SelectSeq(ref.samples, LAMBDA x : x.inst = i /\ x.off = o), LAMBDA f :
        [k \in 1..Len(f) |-> <<f[k].ts, f[k].val>>])

DecodedPairs(i, o) ==
    With(SelectSeq(decoded, LAMBDA x : x.inst = i /\ x.off = o), LAMBDA f :
        [k \in 1..Len(f) |-> <<f[k].ts, f[k].value.val>>])

TypesMatch ==
    /\ DOMAIN resourceTypes = DOMAIN ref.types
    /\ \A t \in DOMAIN ref.types :
          /\ resourceTypes[t].ID = t
          /\ resourceTypes[t].Name = ref.types[t].name
          /\ Len(resourceTypes[t].Stats) = Len(ref.types[t].stats)
          /\ \A i \in 1..Len(ref.types[t].stats) :
                /\ resourceTypes[t].Stats[i].Name = ref.types[t].stats[i].name
                /\ resourceTypes[t].Stats[i].Type = ref.types[t].stats[i].type

InstancesMatch ==
    /\ DOMAIN instances = DOMAIN ref.insts
    /\ \A i \in DOMAIN ref.insts :
          /\ instances[i].Name = ref.insts[i].name
          /\ instances[i].TypeID = ref.insts[i].type

SamplesMatch ==
    \A i \in {ref.samples[k].inst : k \in 1..Len(ref.samples)}
                \cup {decoded[k].inst : k \in 1..Len(decoded)} :
       \A o \in {ref.samples[k].off : k \in 1..Len(ref.samples)}
                   \cup {decoded[k].off : k \in 1..Len(decoded)} :
          DecodedPairs(i, o) = RefPairs(i, o)

\* C3: round trip: when ReadArchive has returned on the bytes a reference encoder
\* made of a valid sequence of type, create, delete and sample-row events, it
\* returned nil, the types with their ordered descriptors and the instances are the
\* encoded ones, and each (instance, stat offset) has the encoded sequence of
\* (timestamp, value) pairs.
C3_RoundTrip ==
    (pc \in {"convert", "done"} /\ ref.ok) =>
        /\ archiveErr = "nil"
        /\ TypesMatch
        /\ InstancesMatch
        /\ SamplesMatch

\* C4: when ConvertFile has returned, every sample the reader decoded has been
\* appended to the sink exactly once, whatever records followed it and whatever the
\* names of its instance and type are.
C4_EverySampleReachesSink ==
    pc = "done" =>
        \A k \in 1..Len(decoded) :
            Cardinality({j \in 1..Len(sink) : sink[j].seq = k}) = 1

\* C5: the timestamp stored with every sample, and handed to the sink, is the value
\* of the running clock after the delta of its sample row was applied, never a
\* wall-clock value.
C5_TimestampIsRunningClock ==
    /\ \A k \in 1..Len(decoded) : decoded[k].ts = decoded[k].clock
    /\ \A j \in 1..Len(sink) : sink[j].ts = decoded[sink[j].seq].clock

\* C6: the timestamps of the samples recorded during one decode, in the order of
\* the stream, are non-decreasing.
C6_TimestampsNonDecreasing ==
    \A j \in 1..Len(decoded) : \A k \in 1..Len(decoded) :
        j < k => decoded[j].ts <= decoded[k].ts

\* C7: the sink appends of one archive are in the order in which the samples appear
\* in the byte stream, also across instances and stats.
C7_SinkInStreamOrder ==
    \A a \in 1..Len(sink) : \A b \in 1..Len(sink) :
        a < b => sink[a].seq < sink[b].seq

\* C8: no sample is recorded or emitted for an instance id that is absent from the
\* live table when its sample row is parsed (never created, or deleted and not
\* created again since): a block for such an id is refused, every recorded sample
\* and every sink append belongs to an id that was live at that moment.
C8_NoSampleForAbsentInstance ==
    /\ \A k \in 1..Len(decoded) : decoded[k].live
    /\ \A j \in 1..Len(sink) : decoded[sink[j].seq].live
    /\ (lastStep.op = "id" /\ ~lastStep.short /\ lastStep.token # -1
            /\ lastStep.token \notin live) =>
          /\ pc = "sampleData"
          /\ Len(decoded) = lastStep.count

\* a block for an id that was created and then deleted has just been refused, after
\* samples had been recorded for it
C8_Witness ==
    /\ lastStep.op = "id"
    /\ lastStep.token \in removed \ live
    /\ pc = "sampleData"
    /\ \E k \in 1..Len(decoded) : decoded[k].inst = lastStep.token

\* C9: in a changed-stat block of an instance whose type has n descriptors, an
\* offset byte o followed by its value is accepted and stores exactly one sample
\* with stat offset o if and only if o < n and o # 255; 255 and only 255 ends the
\* block; no sample is ever recorded with o >= n.
C9_OffsetAcceptedIffInRange ==
    /\ \A k \in 1..Len(decoded) :
          decoded[k].off < decoded[k].n /\ decoded[k].off # ILLEGAL_STAT_OFFSET
    /\ (lastStep.op \in {"stored", "end", "error"} /\ ~lastStep.short) =>
          /\ lastStep.op = "stored" <=>
                (lastStep.token < lastStep.n /\ lastStep.token # ILLEGAL_STAT_OFFSET)
          /\ lastStep.op = "end" <=> lastStep.token = ILLEGAL_STAT_OFFSET
          /\ Len(decoded) = lastStep.count + (IF lastStep.op = "stored" THEN 1 ELSE 0)
          /\ lastStep.op = "stored" =>
                /\ decoded[Len(decoded)].off = lastStep.token
                /\ decoded[Len(decoded)].inst = curInst

\* offset 200 of a type with 201 descriptors has just been accepted
C9_Witness ==
    /\ lastStep.op = "stored"
    /\ lastStep.token = 200
    /\ lastStep.n = 201
    /\ decoded[Len(decoded)].off = 200

\* C10: a sample row is kind byte 0, then a 16-bit delta (or 65535 and a signed
\* 32-bit delta); after the row header the clock is the previous clock plus that
\* delta, the header bytes are consumed, and only then are resource ids read.
C10_RowHeaderDelta ==
    (lastStep.op = "record" /\ lastStep.token = SAMPLE_TOKEN /\ lastStep.row.ok) =>
        /\ pc = "sampleData"
        /\ currentTimeStamp = lastStep.row.clock
        /\ lastStep.used = lastStep.row.p - 1

\* the value a compact read returned, as the shortest two's-complement bytes
CodecOut == Canon(I32(codec.out.v.val))

\* C11: readCompactValue reads a signed leading byte t; for t = -128 it reads exactly
\* 2 further bytes and for t = -127..-122 exactly 3..8 further bytes and returns them
\* big-endian, sign-extended from the first; any other t is the value itself and one
\* byte is consumed; the position advances by exactly 1 + N.
C11_CompactWidths ==
    (codec.state = "decoded" /\ RefCompact(codec.in, 1).ok) =>
        /\ codec.out.ok
        /\ codec.out.p = RefCompact(codec.in, 1).p
        /\ CodecOut = RefCompact(codec.in, 1).v

\* C12: the decoding examples hold: 00 gives 0, 7F gives 127, 81 gives -127,
\* 80 01 00 gives 256, 81 FF FF FF 00 gives -256 and 82 80 00 00 00 gives -2^31.
C12_CompactVectors ==
    (codec.state = "decoded" /\ [in |-> codec.in, value |-> codec.value] \in CodecVectors) =>
        /\ codec.out.ok
        /\ CodecOut = codec.value

\* C13: decoding the compact encoding of a value returns the value and consumes the
\* whole encoding, at every payload width 1..8 and at the boundary values of each
\* width (a 64-bit value read as a long, a 32-bit value read as any compact kind).
C13_CompactRoundTrip ==
    (/\ codec.state = "decoded"
     /\ codec.in = EncCompactBytes(codec.value)
     /\ codec.kind = LONG_TYPE_CODE \/ Len(codec.value) <= 4) =>
        /\ codec.out.ok
        /\ CodecOut = codec.value
        /\ codec.out.p = Len(codec.in) + 1

\* C14: a stat of kind long is returned as a signed 64-bit value with every bit of
\* the encoded value, also when the value is outside the 32-bit range; the kinds
\* boolean, char, byte, short, int and wchar are returned as signed 32-bit values.
C14_LongNotTruncated ==
    (codec.state = "decoded" /\ codec.in = EncCompactBytes(codec.value)) =>
        IF codec.kind = LONG_TYPE_CODE
        THEN /\ codec.out.v.type = "int64"
             /\ Len(codec.value) > 4 => (codec.out.ok /\ CodecOut = codec.value)
        ELSE codec.out.v.type = "int32"

\* C15: when the first byte of the archive is not 77 or the version byte is outside
\* 2..4, ReadArchive returns an error before any record is processed and the type
\* table, the instance table and the samples are empty; when the first byte is 77
\* and the version is 2, 3 or 4, the header is accepted and the running clock is the
\* start time of the archive.
C15_HeaderValidation ==
    lastStep.op = "header" =>
        IF lastStep.token = HEADER_TOKEN /\ lastStep.n \in 2..ARCHIVE_VERSION
        THEN /\ archiveErr = "none"
             /\ pc = "records"
             /\ currentTimeStamp = startTimeStamp
             /\ previousTimeStamp = startTimeStamp
             /\ fed = 0 => (ref.ok /\ startTimeStamp = ref.clock)
        ELSE /\ archiveErr = "error"
             /\ pc = "convert"
             /\ resourceTypes = EmptyFn
             /\ instances = EmptyFn
             /\ decoded = <<>>
             /\ sink = <<>>

\* a header of version 5 has been refused
C15_Witness ==
    /\ lastStep.op = "header"
    /\ lastStep.token = HEADER_TOKEN
    /\ lastStep.n = 5
    /\ archiveErr = "error"

\* C16: ConvertFile returns success only when the decode completed normally:
\* whenever ReadArchive returned an error, ConvertFile returns an error.
C16_ConvertFileReportsDecodeError ==
    (pc = "done" /\ archiveErr = "error") => convertErr = "error"

\* C17: a type-definition record whose id is already in the schema table aborts the
\* decode with an error and leaves the recorded type as it was: a recorded type is
\* never replaced or changed.
C17_TypeNeverReplaced ==
    (/\ lastStep.op = "record"
     /\ lastStep.token = RESOURCE_TYPE_TOKEN
     /\ lastStep.id \in DOMAIN lastStep.types) =>
        /\ archiveErr = "error"
        /\ resourceTypes = lastStep.types

\* C18: an instance-create record whose type id is not in the schema table fails with
\* an error and adds no instance; every instance of the table references a type of
\* the schema table.
C18_CreateNeedsKnownType ==
    /\ (/\ lastStep.op = "record"
        /\ lastStep.token = RESOURCE_INSTANCE_CREATE_TOKEN
        /\ lastStep.id # -1
        /\ lastStep.tid \notin DOMAIN lastStep.types) =>
           /\ archiveErr = "error"
           /\ instances = lastStep.insts
    /\ \A i \in DOMAIN instances : instances[i].TypeID \in DOMAIN resourceTypes

\* C19: an instance-create record whose id is already in the instance table fails
\* with an error and leaves the existing instance and its samples as they were.
C19_CreateNeverReplaces ==
    (/\ lastStep.op = "record"
     /\ lastStep.token = RESOURCE_INSTANCE_CREATE_TOKEN
     /\ lastStep.id \in DOMAIN lastStep.insts) =>
        /\ archiveErr = "error"
        /\ instances = lastStep.insts

\* what the reader makes of the minimal archive itself, names aside: the type with
\* its one int stat, the instance of that type, and one sample of value 42 stamped
\* with the clock the reader had at that row
FlipSame ==
    /\ DOMAIN resourceTypes = {TypeT.id}
    /\ Len(resourceTypes[TypeT.id].Stats) = 1
    /\ resourceTypes[TypeT.id].Stats[1].Type = "StatTypeInt"
    /\ DOMAIN instances = {Create1.id}
    /\ instances[Create1.id].TypeID = TypeT.id
    /\ [k \in 1..Len(decoded) |->
           [inst |-> decoded[k].inst, off |-> decoded[k].off,
            ts |-> decoded[k].ts, val |-> decoded[k].value.val]]
         = <<[inst |-> Create1.id, off |-> 0, ts |-> 1000, val |-> 42]>>

\* C20: the decode fails closed: for an archive that differs from the minimal archive
\* in exactly one byte, ReadArchive either returns an error or ends with the types,
\* instances, sample values and timestamps of the minimal archive; it never ends
\* without error with other sample values or timestamps.
C20_FailsClosed ==
    pc \in {"convert", "done"} => (archiveErr = "error" \/ FlipSame)

\* C21: the decode returns success when the stream ends where a new record is
\* expected, and returns an error when the stream ends inside a record (or inside
\* the header).
C21_EndOfStream ==
    pc \in {"convert", "done"} =>
        IF ref.ok THEN archiveErr = "nil" ELSE archiveErr = "error"

\* C22: when a WriteMetric call returns an error during the conversion of a file, the
\* conversion aborts with that error: no further sample of the file is appended and
\* ConvertFile returns an error.
C22_WriteErrorAborts ==
    (pc = "done" /\ writeFault.seen) =>
        /\ convertErr = "error"
        /\ Len(sink) = writeFault.n

\* C23: for each file conversion the sink is flushed exactly once, after the last
\* append of the file and not before, and the flush does not close the sink, which
\* stays usable for the next file.
C23_FlushOnceKeepsSinkOpen ==
    pool.state # "idle" =>
        \A f \in pool.files :
            /\ pool.flushes[f] > 0 => pool.left[f] = 0
            /\ pool.result[f] = "nil" => (pool.flushes[f] = 1 /\ pool.dbOpen)

\* C27: with Concurrency c >= 1, at every moment at most c processFile calls are in
\* progress.
C27_AtMostConcurrencyInProgress ==
    (pool.state # "idle" /\ pool.c >= 1) => Cardinality(InProgress) <= pool.c

\* as many conversions as Concurrency allows are in progress while another worker
\* waits at the semaphore
C27_Witness ==
    /\ pool.state = "run"
    /\ pool.c >= 1
    /\ Cardinality(InProgress) = pool.c
    /\ \E f \in pool.files : pool.wpc[f] = "spawned"

\* C24: the metric name formatMetricName returns is the prefix, '_', the normalised
\* resource-type name, '_' and the normalised stat name, where the normalisation
\* lowercases ASCII and turns each maximal run of whitespace or '-' into one '_',
\* the same for both names; the prefix is "gemfire" unless the configuration
\* overrides it.
C24_MetricNameNormalised ==
    names.state = "done" =>
        names.out = (IF names.prefix = <<>> THEN DefaultPrefix ELSE names.prefix)
                    \o <<95>> \o NormName(names.resourceType)
                    \o <<95>> \o NormName(names.statName)

\* C25: every sample the conversion appended to the sink carries the label
\* resource_type with the name of the resource type and the label instance with
\* the text id of the instance.
C25_SamplesCarryTypeAndInstance ==
    \A i \in DOMAIN sink :
        /\ {"resource_type", "instance"} \subseteq DOMAIN sink[i].labels
        /\ \E id \in DOMAIN instances :
              /\ instances[id].Name = sink[i].labels.instance
              /\ instances[id].TypeID \in DOMAIN resourceTypes
              /\ resourceTypes[instances[id].TypeID].Name = sink[i].labels.resource_type

\* C26: scenario S1: once the literal bytes of S1 are decoded and converted with
\* the default prefix and no write fails, the sink holds exactly one sample: metric
\* name gemfire_t_x, label instance = "Y", timestamp 1005 ms, value 42.
C26_ScenarioS1 ==
    (file = S1Archive /\ pc = "done" /\ ~writeFault.seen) =>
        /\ Len(sink) = 1
        /\ sink[1].name = DefaultPrefix \o <<95, 116, 95, 120>>
        /\ "instance" \in DOMAIN sink[1].labels
        /\ sink[1].labels.instance = <<89>>
        /\ sink[1].ts = 1005
        /\ sink[1].value = 42

\* C28: a request to cancel made while the decode runs is observed at the next
\* record boundary: ReadArchive returns an error (Cancelled) and no record after
\* the request is processed, so the tables and the stored samples are those of the
\* request or of the one record that was being read.
C28_CancelObserved ==
    (cancel.seen /\ pc \in {"convert", "done"}) =>
        /\ archiveErr = "error"
        /\ Cardinality(DOMAIN resourceTypes \ cancel.types)
             + Cardinality(DOMAIN instances \ cancel.insts) <= 1

\* C29: in watch mode every Create or Write event on a .gfs file is eventually
\* followed by a conversion of that file that starts at or after the event, also
\* when the event arrives after an earlier conversion of the file succeeded.
C29_EventLeadsToConversion ==
    \A f \in WatchFiles :
        (watch.state = "run" /\ f \in watch.owed) ~> (f \notin watch.owed)

\* C30: the running clock of a decode that succeeded is not negative: a start time
\* or a delta that would make it negative ends the decode with an error (BadClock)
\* instead.
C30_ClockNotNegative ==
    archiveErr = "nil" =>
        /\ currentTimeStamp >= 0
        /\ \A i \in DOMAIN sink : sink[i].ts \notin WallClock

\* modified UTF-8 as the format description defines it, for one- and two-byte
\* sequences: C0 80 is U+0000, a byte below 128 is itself, 110xxxxx 10yyyyyy is
\* the code point xxxxxyyyyyy; the result is the string in standard UTF-8
RECURSIVE ModifiedUTF8(_, _)
ModifiedUTF8(bs, i) ==
    IF i > Len(bs) THEN <<>>
    ELSE IF bs[i] < 128 THEN <<bs[i]>> \o ModifiedUTF8(bs, i + 1)
    ELSE IF i < Len(bs) /\ bs[i] = 192 /\ bs[i + 1] = 128 THEN <<0>> \o ModifiedUTF8(bs, i + 2)
    ELSE <<bs[i]>> \o ModifiedUTF8(bs, i + 1)

\* C31: readUTF decodes modified UTF-8: the name whose payload holds C0 80 comes
\* back with the one character U+0000 at that index and one byte less than the
\* payload; every other byte is what standard UTF-8 makes of it.
C31_ModifiedUtf8 ==
    (file = NulArchive /\ 1 \in DOMAIN resourceTypes) =>
        /\ resourceTypes[1].Name = ModifiedUTF8(<<65, 192, 128, 66>>, 1)
        /\ Len(resourceTypes[1].Name) = 3
        /\ resourceTypes[1].Name[2] = 0

\* C32: readResourceInstanceId returns the end-of-row sentinel only for the single
\* byte 255: an id written with more bytes (token 253 and a u16, token 254 and a
\* u32, 0xFFFFFFFF included) is never taken for the sentinel.
C32_SentinelOnlyFromByte255 ==
    (lastStep.op = "id" /\ ~lastStep.short /\ lastStep.token = -1) => lastStep.used = 1

\* C33: every type of the schema table has as many descriptors as its
\* type-definition record declares, in stream order; a type whose descriptors could
\* not all be read is not in the table.  The one type-definition record of the
\* minimal archive declares the descriptors of TypeT.
C33_TypeHasDeclaredDescriptors ==
    \A t \in DOMAIN resourceTypes :
        /\ Len(resourceTypes[t].Stats) = Len(TypeT.stats)
        /\ \A k \in 1..Len(TypeT.stats) :
              resourceTypes[t].Stats[k].Name = TypeT.stats[k].name

\* C34: while ProcessDirectory converts its files with the one shared Converter,
\* the shared database is not closed before the last file has finished: no
\* WriteMetric and no Commit of any worker meets a closed database.
C34_WriterOpenUntilLastFile ==
    pool.state # "idle" =>
        /\ ~pool.closedUse
        /\ ~pool.dbOpen => \A f \in pool.files : pool.wpc[f] \in {"release", "done"}

\* C35: ProcessDirectory returns in the end, for every set of discovered files and
\* every Concurrency, 0 included, when every conversion returns.
C35_ProcessDirectoryReturns ==
    <>(pool.state = "returned")

\* C36: in one ProcessDirectory call every distinct path is converted at most
\* once, also when several node patterns match it: no two conversions started are
\* conversions of one path.
C36_PathConvertedOnce ==
    pool.state # "idle" =>
        \A f \in pool.files, g \in pool.files :
            (f # g /\ pool.path[f] = pool.path[g]) =>
                ~(pool.wpc[f] # "spawned" /\ pool.wpc[g] # "spawned")

\* C37: ProcessDirectory attempts every discovered file whatever happens to the
\* others, returns an error exactly when some conversion returned an error, and
\* the number it reports is the number of failed files.
C37_ErrorsCountFailedFiles ==
    pool.state = "returned" =>
        /\ \A f \in pool.files : pool.result[f] # "none"
        /\ pool.errors = Cardinality({f \in pool.files : pool.result[f] = "error"})
        /\ pool.returned = "error" <=> (\E f \in pool.files : pool.result[f] = "error")

C37_Witness ==
    /\ pool.state = "returned"
    /\ pool.errors = 1
    /\ pool.returned = "error"
    /\ \E f \in pool.files : pool.result[f] = "nil"

\* C38: in the watchers at most one conversion of a file name is in progress at
\* any time, under every interleaving of events and processFile goroutines, and a
\* name whose conversion failed is not marked any more, so that the goroutine of a
\* later event converts the file again.
C38_OneConversionPerName ==
    watch.state = "run" =>
        \A f \in WatchFiles :
            /\ watch.converting[f] <= 1
            /\ watch.converting[f] = 1 => f \in watch.processedFiles
            /\ f \in watch.failed => f \notin watch.processedFiles

C38_Witness ==
    /\ watch.state = "run"
    /\ \E f \in WatchFiles :
          /\ watch.started[f] = 2
          /\ watch.converting[f] = 1
          /\ watch.spawned[f] = 1

\* C39: after Writer.Commit has returned, with or without an error, the Writer
\* holds a fresh appender, neither committed nor rolled back; and after
\* Writer.Close has returned the database is closed, also when its Commit failed.
C39_FreshAppenderAndClosedDb ==
    pool.state # "idle" =>
        /\ pool.appender = "fresh"
        /\ \A f \in pool.files : pool.flushes[f] > 0 => ~pool.dbOpen

====
